---- MODULE Spec2Model ----
(***************************************************************************)
(* Page service of the pageserver (pageserver/src/page_service.rs): the    *)
(* simple-query dispatcher process_query, the pagestream and push COPY     *)
(* loops, and the tenant registry the verbs look tenants up in.            *)
(*                                                                         *)
(* A connection worker is modelled by its position pc[c], the messages it  *)
(* has written out[c] (flushed[c] of them flushed to the socket), the      *)
(* calls it has made into its collaborators ops[c], and the result res[c]  *)
(* of its last query.  Collaborators that are not part of page_service.rs  *)
(* (PostgresBackend, page_cache, branches, the Timeline) are modelled by   *)
(* their interface: every result the interface allows is a choice.         *)
(*                                                                         *)
(* The WAL receive endpoint of the safekeeper (walkeeper/src/              *)
(* receive_wal.rs), ReceiveWalConn::run, is modelled beside it: one        *)
(* session, the calls it makes into its timeline, the events it sends to   *)
(* the callmemaybe worker, and the guard that is dropped when run exits.   *)
(***************************************************************************)
EXTENDS Integers, Sequences, FiniteSets, TLC

VARIABLES
    registry,       \* page_cache: tenant id -> repository (0: not registered)
    nextRepo,       \* identity given to the next repository create_repo builds
    repoTimelines,  \* tenant id -> timelines its repository holds
    lastValid,      \* <<tenant, timeline>> -> the timeline's last-valid LSN
    walreceivers,   \* the calls of launch_wal_receiver, in order
    receivers,      \* the WAL-receiver workers that run: <<tenant, timeline, connstr>>
    created,        \* tenants whose tenant_create reply reached the client
    pc,             \* per connection: where its worker is
    cmd,            \* per connection: the query being (or last) processed
    out,            \* per connection: BE messages written for that query
    flushed,        \* per connection: how many of out are flushed
    ops,            \* per connection: collaborator calls made for that query
    res,            \* per connection: result of process_query
    nq,             \* per connection: queries received so far
    eof,            \* per connection: the client has closed its sending side
    seen,           \* per connection: created, as it was when the query arrived
    nread,          \* per connection: inbound messages read in the COPY loop
    inmsg,          \* per connection: the last of them
    reqs,           \* per connection: pagestream requests parsed, with answers
    pending,        \* per connection: response built and not yet written
    last_lsn,       \* per connection: push's last_lsn local
    puts,           \* per connection: LSNs given to put_raw_data, in order
    workload,       \* what the clients send at most: queries per connection,
                    \* messages per COPY session
    listener,       \* thread_main: where the accept loop is
    prev,           \* per connection: the result of the query before this one
    wpc,            \* ReceiveWalConn: where run is
    pageserver_connstr, \* ReceiveWalConn: the connection string, or NoConnstr
    wmsg,           \* run's local msg: the message handed to process_msg next
    guard,          \* run's local _guard holds a SendWalHandlerGuard
    inbox,          \* what read_message returned to run so far, in order
    weof,           \* the proposer closed the connection
    wout,           \* BE messages run wrote
    wops,           \* calls run made on the timeline and the event channel
    wres,           \* what run returned
    callme,         \* the events in the channel to the callmemaybe worker
    subs,           \* the subscriptions the callmemaybe worker holds
    sunk,           \* CopyDataSink: the writes it was handed, in order
    emitted,        \* CopyDataSink: the CopyData messages it emitted, in order
    spc,            \* start_pageserver: where it is
    threads,        \* start_pageserver: the background threads spawned so far
    sres,           \* start_pageserver: what it returned
    cell,           \* per executor thread: the OnceCell of its ThreadLocalState
    permit,         \* per executor thread: the task that initializes the cell
    launch_attempts, \* per executor thread: launch_attempts of its state
    tpc,            \* per task: where its call of thread_local_system is
    tthread,        \* per task: the executor thread it runs on
    tstate,         \* per task: the thread whose state thread_local_state is
    tres,           \* per task: res of System::launch in this turn of the loop
    handle          \* per task: the state the Handle it got refers to

sharedVars == <<registry, nextRepo, repoTimelines, lastValid, walreceivers, receivers,
               created>>
connVars == <<pc, cmd, out, flushed, ops, res, nq, eof, seen>>
copyVars == <<nread, inmsg, reqs, pending, last_lsn, puts>>
walVars == <<wpc, pageserver_connstr, wmsg, guard, inbox, weof, wout, wops, wres, callme, subs>>
sinkVars == <<sunk, emitted>>
\* What the page service and the WAL receive endpoint never touch.
startVars == <<spc, threads, sres>>
uringVars == <<cell, permit, launch_attempts, tpc, tthread, tstate, tres, handle>>
restVars == <<sinkVars, startVars, uringVars>>
vars == <<registry, nextRepo, repoTimelines, lastValid, walreceivers, receivers, created,
          pc, cmd, out, flushed, ops, res, nq, eof, seen,
          nread, inmsg, reqs, pending, last_lsn, puts, workload, listener, prev,
          wpc, pageserver_connstr, wmsg, guard, inbox, weof, wout, wops, wres, callme, subs,
          sunk, emitted, spc, threads, sres,
          cell, permit, launch_attempts, tpc, tthread, tstate, tres, handle>>

(***************************************************************************)
(* Bounds of the model.                                                    *)
(***************************************************************************)
MaxMsgs == 3       \* inbound messages of the COPY session of SpecPagestream, SpecPush
MaxQueries == 2    \* queries a client sends on one connection (Spec)
CopyMsgs == 1      \* inbound messages of a COPY session (Spec)
MaxAttempts == 2   \* launch attempts made for one thread-local state (SpecUring)
MaxWrites == 3     \* writes handed to one CopyDataSink (SpecSink)
MaxLsn == 3        \* LSNs of pushed modifications are 1..MaxLsn
MaxChunks == 2     \* CopyData chunks of one basebackup tarball

(***************************************************************************)
(* Program constants.                                                      *)
(***************************************************************************)
BLCKSZ == 8192
\* 1 + 4 + 4 + 4 + 1 + 4 + 8: the bytes PagestreamFeMessage::parse takes.
ParseReads == <<1, 4, 4, 4, 1, 4, 8>>

Conns == {"c1", "c2"}
\* "11" and "22" stand for the 32-digit hex ids 11..11 and 22..22; "zz" is not
\* hex; "64" is a decimal number (hex digits, but not a 16-byte id); "0/2" is
\* the LSN 0/2.
HexIds == {"11", "22"}
Tokens == HexIds \cup {"zz", "64", "0/2"}
\* The tokens tried as first and second argument, and as third.
LeadTokens == HexIds \cup {"zz"}

Max(a, b) == IF a >= b THEN a ELSE b

RECURSIVE SeqMax(_)
SeqMax(s) == IF s = <<>> THEN 0 ELSE Max(Head(s), SeqMax(Tail(s)))

(***************************************************************************)
(* Wire messages.  A BE message is [type, head, page, row]: head holds the *)
(* leading bytes of a CopyData payload and page the page that follows      *)
(* them, a run of len bytes all equal to fill; row holds the column names  *)
(* of a RowDescription and the values of a DataRow.                        *)
(***************************************************************************)
NoPage == [len |-> 0, fill |-> 0]
ZERO_PAGE == [len |-> BLCKSZ, fill |-> 0]
\* Page images the repository hands out.
RepoPages == {[len |-> BLCKSZ, fill |-> 7]}

BeMessage(type) == [type |-> type, head |-> <<>>, page |-> NoPage, row |-> <<>>]
BeCopyData(payload) ==
    [type |-> "CopyData", head |-> payload.head, page |-> payload.page, row |-> <<>>]
BeRow(type, row) == [type |-> type, head |-> <<>>, page |-> NoPage, row |-> row]
SINGLE_COL_ROWDESC == BeRow("RowDescription", <<"data">>)
CommandComplete == BeMessage("CommandComplete")

\* FE messages PostgresBackend::read_message can return inside a COPY loop.
\* A CopyData carries a payload of len bytes whose first byte is kind and, for a
\* push, the Modification it deserializes to (lsn 0: it does not deserialize).
FeCopyData(len, kind, lsn) == [type |-> "CopyData", len |-> len, kind |-> kind, lsn |-> lsn]
FeOther(type) == [type |-> type, len |-> 0, kind |-> 0, lsn |-> 0]
PayloadLens == {0, 25, 26, 27}
KindBytes == {0, 1, 2, 3}
PagestreamInbound ==
    {FeCopyData(l, k, 0) : l \in PayloadLens, k \in KindBytes}
        \cup {FeOther("Sync"), FeOther("CopyDone")}

\* What a WAL proposer sends: a CopyData whose bytes decode to the
\* ProposerAcceptorMessage named by tag (a Greeting carries the tenant id), or
\* do not decode ("garbage"); or another FE message.
ProposerCopyData(tag, tenant_id) == [type |-> "CopyData", tag |-> tag, tenant_id |-> tenant_id]
ProposerOther(type) == [type |-> type, tag |-> "none", tenant_id |-> ""]
NoProposerMessage == ProposerOther("none")
NoConnstr == ""

\* bytes::Buf::get_u8/get_u32/get_u64 panic when fewer bytes remain than they
\* take: parse panics unless the payload holds all of ParseReads.
RECURSIVE GetsPanic(_, _)
GetsPanic(remaining, reads) ==
    IF reads = <<>> THEN FALSE
    ELSE IF remaining < Head(reads) THEN TRUE
    ELSE GetsPanic(remaining - Head(reads), Tail(reads))

\* PagestreamFeMessage::parse: "panic", "err" or the request kind 0, 1, 2.
ParseOutcome(msg) ==
    IF GetsPanic(msg.len, ParseReads) THEN "panic"
    ELSE IF msg.kind \in {0, 1, 2} THEN "ok"
    ELSE "err"

\* What the timeline answers to the call a request of this kind makes
\* (get_rel_exists, get_rel_size, get_page_at_lsn): Ok(value) or Err.
Answer(err, exists, size, page) ==
    [err |-> err, exists |-> exists, size |-> size, page |-> page]
TimelineAnswers(kind) ==
    CASE kind = 0 -> {Answer(TRUE, FALSE, 0, NoPage), Answer(FALSE, FALSE, 0, NoPage),
                      Answer(FALSE, TRUE, 0, NoPage)}
      [] kind = 1 -> {Answer(TRUE, FALSE, 0, NoPage), Answer(FALSE, FALSE, 0, NoPage),
                      Answer(FALSE, FALSE, 258, NoPage)}
      [] OTHER    -> {Answer(TRUE, FALSE, 0, NoPage)}
                         \cup {Answer(FALSE, FALSE, 0, p) : p \in RepoPages}

\* The PagestreamBeMessage built for a parsed request.
PagestreamResponse(tag, ok, n_blocks, page) ==
    [tag |-> tag, ok |-> ok, n_blocks |-> n_blocks, page |-> page]

\* Mutant: a lookup that fails is answered as a relation that exists.
ExistsResponse_ErrorAsExists(ans) ==
    PagestreamResponse("Status", ans.err \/ ans.exists, 0, NoPage)

ExistsResponse(ans) ==
    PagestreamResponse("Status", IF ans.err THEN FALSE ELSE ans.exists, 0, NoPage)

\* Mutant: a size lookup that fails is answered with ok = false.
NblocksResponse_ErrorNotOk(ans) ==
    PagestreamResponse("Nblocks", ~ans.err, IF ans.err THEN 0 ELSE ans.size, NoPage)

NblocksResponse(ans) ==
    PagestreamResponse("Nblocks", TRUE, IF ans.err THEN 0 ELSE ans.size, NoPage)

\* Mutant: the failure answered with an empty page instead of the zero page.
ReadResponse_EmptyPageOnError(ans) ==
    IF ans.err THEN PagestreamResponse("Read", FALSE, 0, NoPage)
    ELSE PagestreamResponse("Read", TRUE, 0, ans.page)

ReadResponse(ans) ==
    IF ans.err THEN PagestreamResponse("Read", FALSE, 0, ZERO_PAGE)
    ELSE PagestreamResponse("Read", TRUE, 0, ans.page)

BuildResponse(kind, ans) ==
    CASE kind = 0 -> ExistsResponse(ans)
      [] kind = 1 -> NblocksResponse(ans)
      [] OTHER    -> ReadResponse(ans)

NoResponse == PagestreamResponse("none", FALSE, 0, NoPage)

\* put_u32: four bytes, big-endian.
PutU32(n) == <<(n \div 16777216) % 256, (n \div 65536) % 256, (n \div 256) % 256, n % 256>>

\* Mutant: Nblocks serialized with the tag of Status.
TagByte_NblocksAsStatus(tag) == CASE tag = "Read" -> 102 [] OTHER -> 100

TagByte(tag) == CASE tag = "Status" -> 100 [] tag = "Nblocks" -> 101 [] OTHER -> 102

\* Mutant: n_blocks is left out of a Read response.
Serialize_ReadWithoutNblocks(resp) ==
    [head |-> <<TagByte(resp.tag), IF resp.ok THEN 1 ELSE 0>>
                \o (IF resp.tag = "Read" THEN <<>> ELSE PutU32(resp.n_blocks)),
     page |-> IF resp.tag = "Read" THEN resp.page ELSE NoPage]

\* PagestreamBeMessage::serialize
Serialize(resp) ==
    [head |-> <<TagByte(resp.tag), IF resp.ok THEN 1 ELSE 0>> \o PutU32(resp.n_blocks),
     page |-> IF resp.tag = "Read" THEN resp.page ELSE NoPage]

(***************************************************************************)
(* Queries.  A simple query is a verb followed by tokens, each preceded by *)
(* one space.                                                              *)
(***************************************************************************)
ArgSeqs ==
    {a \in UNION {[1..n -> Tokens] : n \in 0..3} :
        \A i \in 1..Len(a) : i < 3 => a[i] \in LeadTokens}
Query(verb, args) == [verb |-> verb, args |-> args]
NoQuery == Query("", <<>>)

\* The tests of process_query's if-chain, in its order: the prefix the query is
\* tested for (spaced: the prefix ends with a space) and whether the query is
\* lowercased for the test.
Branch(name, spaced, lowered) == [name |-> name, spaced |-> spaced, lowered |-> lowered]
Branches ==
    <<Branch("controlfile", FALSE, FALSE), Branch("pagestream", TRUE, FALSE),
      Branch("basebackup", TRUE, FALSE), Branch("callmemaybe", TRUE, FALSE),
      Branch("branch_create", TRUE, FALSE), Branch("push", TRUE, FALSE),
      Branch("request_push", TRUE, FALSE), Branch("branch_list", TRUE, FALSE),
      Branch("tenant_list", FALSE, FALSE), Branch("tenant_create", FALSE, FALSE),
      Branch("status", FALSE, FALSE), Branch("set", TRUE, TRUE),
      Branch("do_gc", TRUE, FALSE)>>

\* The first tokens of the queries tried: the prefixes above, some of them in
\* other letter cases or with a letter appended, and a word that is none.
FirstTokens ==
    {Branches[i].name : i \in 1..Len(Branches)}
        \cup {"SET", "Set", "PAGESTREAM", "Status", "statusx", "bogus"}
Queries == {Query(v, a) : v \in FirstTokens, a \in ArgSeqs}

\* str::to_ascii_lowercase
ToAsciiLowercase(tok) ==
    CASE tok \in {"SET", "Set"} -> "set"
      [] tok = "PAGESTREAM" -> "pagestream"
      [] tok = "Status" -> "status"
      [] OTHER -> tok

\* The tokens a token starts with: itself and, for statusx, status.
TokenPrefixes(tok) == IF tok = "statusx" THEN {"statusx", "status"} ELSE {tok}

\* str::starts_with on a query whose first token is tok and that has (more) or
\* has not a space and further tokens after it.
StartsWith(tok, more, name, spaced) ==
    IF spaced THEN tok = name /\ more ELSE name \in TokenPrefixes(tok)

\* The test of one branch on query q.
BranchTest(q, b) ==
    StartsWith(IF b.lowered THEN ToAsciiLowercase(q.verb) ELSE q.verb,
               q.args # <<>>, b.name, b.spaced)

\* Mutant: every test is made on the lowercased query.
Dispatch_CaseInsensitive(q) ==
    LET low == Query(ToAsciiLowercase(q.verb), q.args)
        hits == {i \in 1..Len(Branches) : BranchTest(low, Branches[i])}
    IN  IF hits = {} THEN "unknown"
        ELSE Branches[CHOOSE i \in hits : \A j \in hits : i <= j].name

\* process_query's if-chain: the branch of the first test that succeeds, or
\* the final else.
Dispatch(q) ==
    LET hits == {i \in 1..Len(Branches) : BranchTest(q, Branches[i])}
    IN  IF hits = {} THEN "unknown"
        ELSE Branches[CHOOSE i \in hits : \A j \in hits : i <= j].name

\* The queries that take a branch.
DispatchTable == [q \in Queries |-> Dispatch(q)]
Dispatched(name) == {q \in Queries : DispatchTable[q] = name}

\* Lsn::from_str accepts the token; the LSN it gives.
IsLsn(tok) == tok = "0/2"
LsnOf(tok) == IF tok = "0/2" THEN 2 ELSE 0

\* [[:xdigit:]]+ matches the token.
IsXDigits(tok) == tok \in HexIds \cup {"64"}
\* ZTenantId::from_str / ZTimelineId::from_str accept the token.
IsId(tok) == tok \in HexIds

Op(name, n) == [op |-> name, n |-> n]
OpNames(s) == {s[i].op : i \in 1..Len(s)}
MsgTypes(s) == {s[i].type : i \in 1..Len(s)}

\* What a handler did: where the worker is afterwards, the messages written (how
\* many of them flushed), the collaborator calls made, and the handler's result
\* ("none" while it is still running).
Outcome(pcv, outv, flushedv, opsv, resv) ==
    [pc |-> pcv, out |-> outv, flushed |-> flushedv, ops |-> opsv, res |-> resv]
\* The handler returned Err(err) to PostgresBackend::run.
Fail(outv, flushedv, opsv, err) == Outcome("done", outv, flushedv, opsv, err)
\* A write to or a read from the client socket failed.
IoFail(outv, flushedv, opsv) == Outcome("closed", outv, flushedv, opsv, "io_error")
\* The worker thread panicked.
Panic(outv, flushedv, opsv) == Outcome("panicked", outv, flushedv, opsv, "panic")
\* The handler goes on to process_query's final pgb.flush().
ToFlush(outv, flushedv, opsv) == Outcome("flush", outv, flushedv, opsv, "none")

\* page_cache::get_repository_for_tenant found a repository.
TenantRegistered(tenantid) == registry[tenantid] # 0
\* Repository::get_timeline returned a timeline.
TimelineExists(tenantid, timelineid) == timelineid \in repoTimelines[tenantid]

GetRepo == Op("get_repository_for_tenant", 0)
GetTimeline == Op("get_timeline", 0)

\* PostgresBackend::run is waiting for the next query, and the client sends one.
QueryReady(c) == pc[c] = "ready" /\ nq[c] < workload.queries

\* The worker took query q and its handler ran to outcome h.
Handled(c, q, h) ==
    /\ cmd' = [cmd EXCEPT ![c] = q]
    /\ pc' = [pc EXCEPT ![c] = h.pc]
    /\ out' = [out EXCEPT ![c] = h.out]
    /\ flushed' = [flushed EXCEPT ![c] = h.flushed]
    /\ ops' = [ops EXCEPT ![c] = h.ops]
    /\ res' = [res EXCEPT ![c] = h.res]
    /\ nq' = [nq EXCEPT ![c] = @ + 1]
    /\ seen' = [seen EXCEPT ![c] = created]
    /\ UNCHANGED <<eof, workload, listener, prev, copyVars, walVars, restVars>>

\* The worker moved on inside the query it is processing.
Continued(c, h) ==
    /\ pc' = [pc EXCEPT ![c] = h.pc]
    /\ out' = [out EXCEPT ![c] = h.out]
    /\ flushed' = [flushed EXCEPT ![c] = h.flushed]
    /\ ops' = [ops EXCEPT ![c] = h.ops]
    /\ res' = [res EXCEPT ![c] = h.res]
    /\ UNCHANGED <<cmd, nq, seen, workload, listener, prev, walVars, restVars>>

\* No WAL receive session has been opened.
NoWalSession ==
    /\ wpc = "none"
    /\ pageserver_connstr = NoConnstr
    /\ wmsg = NoProposerMessage
    /\ guard = FALSE
    /\ inbox = <<>>
    /\ weof = FALSE
    /\ wout = <<>>
    /\ wops = <<>>
    /\ wres = "none"
    /\ callme = <<>>
    /\ subs = {}

\* The threads start_pageserver spawns, itself or through page_cache::init.
BackgroundThreads == {"metrics", "walredo", "page_service"}

\* start_pageserver got to its join: the listener is bound and thread_main
\* runs.
Serving ==
    /\ listener = "accepting"
    /\ spc = "join"
    /\ threads = BackgroundThreads
    /\ sres = "none"

\* The executor threads and the tasks that call thread_local_system.
ExecutorThreads == {"e1", "e2"}
Tasks == {"k1", "k2"}
NoThread == "none"

\* THREAD_LOCAL of every executor thread is ThreadLocalState::new(), and no
\* task has called thread_local_system.
NoSystem ==
    /\ cell = [e \in ExecutorThreads |-> "empty"]
    /\ permit = [e \in ExecutorThreads |-> "none"]
    /\ launch_attempts = [e \in ExecutorThreads |-> 0]
    /\ tpc = [k \in Tasks |-> "loop"]
    /\ tstate = [k \in Tasks |-> NoThread]
    /\ tres = [k \in Tasks |-> "none"]
    /\ handle = [k \in Tasks |-> NoThread]

\* The tenants found on disk and registered (tenant 11 with its timeline 11;
\* tenant 22 is unknown), no connection and no session yet.
Loaded ==
    /\ NoSystem
    /\ sunk = <<>>
    /\ emitted = <<>>
    /\ registry = [t \in HexIds |-> IF t = "11" THEN 1 ELSE 0]
    /\ nextRepo = 2
    /\ repoTimelines = [t \in HexIds |-> IF t = "11" THEN {"11"} ELSE {}]
    /\ lastValid = [k \in HexIds \X HexIds |-> 0]
    /\ walreceivers = <<>>
    /\ receivers = {}
    /\ created = {}
    /\ prev = [c \in Conns |-> "none"]
    /\ cmd = [c \in Conns |-> NoQuery]
    /\ out = [c \in Conns |-> <<>>]
    /\ flushed = [c \in Conns |-> 0]
    /\ ops = [c \in Conns |-> <<>>]
    /\ res = [c \in Conns |-> "none"]
    /\ nq = [c \in Conns |-> 0]
    /\ eof = [c \in Conns |-> FALSE]
    /\ seen = [c \in Conns |-> {}]
    /\ nread = [c \in Conns |-> 0]
    /\ inmsg = [c \in Conns |-> FeOther("none")]
    /\ reqs = [c \in Conns |-> <<>>]
    /\ pending = [c \in Conns |-> NoResponse]
    /\ last_lsn = [c \in Conns |-> 0]
    /\ puts = [c \in Conns |-> <<>>]
    /\ NoWalSession

\* The page server after startup.
Booted == Loaded /\ Serving /\ tthread = [k \in Tasks |-> "e1"]

\* Every connection was accepted and its worker waits for the first query.
Started == Booted /\ pc = [c \in Conns |-> "ready"]

Init == Started /\ workload = [queries |-> MaxQueries, msgs |-> CopyMsgs]

(***************************************************************************)
(* pagestream                                                              *)
(***************************************************************************)
\* Mutant: the client is switched to COPYBOTH before the timeline is looked up.
HandlePagerequestsEnter_CopyBothFirst(timelineid, tenantid, wok) ==
    IF ~TenantRegistered(tenantid)
    THEN Fail(<<>>, 0, <<GetRepo>>, "tenant_not_found")
    ELSE IF ~wok
    THEN IoFail(<<>>, 0, <<GetRepo>>)
    ELSE IF ~TimelineExists(tenantid, timelineid)
    THEN Fail(<<BeMessage("CopyBothResponse")>>, 1, <<GetRepo, GetTimeline>>,
              "timeline_not_found")
    ELSE Outcome("pagestream", <<BeMessage("CopyBothResponse")>>, 1,
                 <<GetRepo, GetTimeline>>, "none")

\* handle_pagerequests up to its read loop; wok: the write of CopyBothResponse
\* succeeds.
HandlePagerequestsEnter(timelineid, tenantid, wok) ==
    IF ~TenantRegistered(tenantid)
    THEN Fail(<<>>, 0, <<GetRepo>>, "tenant_not_found")
    ELSE IF ~TimelineExists(tenantid, timelineid)
    THEN Fail(<<>>, 0, <<GetRepo, GetTimeline>>, "timeline_not_found")
    ELSE IF ~wok
    THEN IoFail(<<>>, 0, <<GetRepo, GetTimeline>>)
    ELSE Outcome("pagestream", <<BeMessage("CopyBothResponse")>>, 1,
                 <<GetRepo, GetTimeline>>, "none")

\* process_query, the "pagestream " branch.
QueryPagestream(c) ==
    /\ QueryReady(c)
    /\ \E q \in Dispatched("pagestream") : \E args \in {q.args} :
      \E wok \in IF Len(args) = 2 THEN BOOLEAN ELSE {TRUE} :
        Handled(c, q,
                IF Len(args) # 2 \/ ~\A i \in 1..Len(args) : IsId(args[i])
                THEN Fail(<<>>, 0, <<>>, "syntax")
                ELSE HandlePagerequestsEnter(args[2], args[1], wok))
    /\ UNCHANGED sharedVars

\* The timeline calls a message leads to: none unless it parses.
NoAnswer == Answer(FALSE, FALSE, 0, NoPage)
AnswersFor(msg) ==
    IF msg.type = "CopyData" /\ ParseOutcome(msg) = "ok"
    THEN TimelineAnswers(msg.kind) ELSE {NoAnswer}

\* Mutant: a failed timeline call is propagated with `?` and ends the session.
HandleRequest_PropagatesRepoError(c, msg, ans) ==
    CASE ParseOutcome(msg) = "panic" -> Panic(out[c], flushed[c], ops[c])
      [] ParseOutcome(msg) = "err" -> Fail(out[c], flushed[c], ops[c], "unknown_smgr_tag")
      [] ans.err -> Fail(out[c], flushed[c], ops[c], "repo_error")
      [] OTHER -> Outcome("ps_write", out[c], flushed[c], ops[c], "none")

\* The loop body for a CopyData, from parse to the built response: the worker
\* goes on to write the response ("ps_write") unless parse panics or fails.
HandleRequest(c, msg, ans) ==
    CASE ParseOutcome(msg) = "panic" -> Panic(out[c], flushed[c], ops[c])
      [] ParseOutcome(msg) = "err" -> Fail(out[c], flushed[c], ops[c], "unknown_smgr_tag")
      [] OTHER -> Outcome("ps_write", out[c], flushed[c], ops[c], "none")

\* One turn of handle_pagerequests' loop up to the response: read_message, parse,
\* the timeline call, the PagestreamBeMessage.
\* Mutant: the end of the loop writes CommandComplete, as the push handler does.
LoopEnds_WritesCommandComplete(c) ==
    ToFlush(Append(out[c], CommandComplete), flushed[c], ops[c])

\* read_message() gave Ok(None): the while-let loop ends and handle_pagerequests
\* returns Ok(()) without writing anything
LoopEnds(c) == ToFlush(out[c], flushed[c], ops[c])

PagestreamRead(c) ==
    /\ pc[c] = "pagestream"
    /\ \/ \* read_message()? fails
          /\ Continued(c, IoFail(out[c], flushed[c], ops[c]))
          /\ UNCHANGED <<eof, copyVars>>
       \/ \* Ok(None): the client is gone, the loop ends and the handler returns Ok
          /\ Continued(c, LoopEnds(c))
          /\ eof' = [eof EXCEPT ![c] = TRUE]
          /\ UNCHANGED copyVars
       \/ /\ nread[c] < workload.msgs
          /\ \E msg \in PagestreamInbound : \E ans \in AnswersFor(msg) :
                /\ nread' = [nread EXCEPT ![c] = @ + 1]
                /\ inmsg' = [inmsg EXCEPT ![c] = msg]
                /\ IF msg.type # "CopyData"
                   THEN \* continue
                        /\ UNCHANGED <<connVars, reqs, pending, workload, listener, prev,
                                       walVars, restVars>>
                   ELSE LET h == HandleRequest(c, msg, ans) IN
                        /\ Continued(c, h)
                        /\ reqs' = IF h.pc = "ps_write"
                                   THEN [reqs EXCEPT ![c] = Append(@,
                                            [kind |-> msg.kind, ans |-> ans,
                                             at |-> nread[c] + 1])]
                                   ELSE reqs
                        /\ pending' = IF h.pc = "ps_write"
                                      THEN [pending EXCEPT ![c] =
                                                BuildResponse(msg.kind, ans)]
                                      ELSE pending
                        /\ UNCHANGED eof
          /\ UNCHANGED <<last_lsn, puts>>
    /\ UNCHANGED sharedVars

\* The loop's write_message(CopyData(response.serialize()))?
WriteResponse(c, wok) ==
    IF wok
    THEN Outcome("pagestream", Append(out[c], BeCopyData(Serialize(pending[c]))),
                 Len(out[c]) + 1, ops[c], "none")
    ELSE IoFail(out[c], flushed[c], ops[c])

PagestreamWrite(c) ==
    /\ pc[c] = "ps_write"
    /\ \E wok \in BOOLEAN : Continued(c, WriteResponse(c, wok))
    /\ pending' = [pending EXCEPT ![c] = NoResponse]
    /\ UNCHANGED <<eof, nread, inmsg, reqs, last_lsn, puts>>
    /\ UNCHANGED sharedVars

(***************************************************************************)
(* basebackup                                                              *)
(***************************************************************************)
\* How one basebackup goes: find_latest_snapshot succeeds (snap), send_tarball
\* writes chunks CopyData messages and then succeeds (tar), and the wfail-th
\* flushing write of the handler fails (0: none does).
BasebackupRuns ==
    [snap : BOOLEAN, tar : BOOLEAN, chunks : 0..MaxChunks, wfail : 0..(MaxChunks + 2)]
NoRun == [snap |-> TRUE, tar |-> TRUE, chunks |-> 0, wfail |-> 0]
TarChunk == BeCopyData([head |-> <<>>, page |-> NoPage])
Chunks(n) == [i \in 1..n |-> TarChunk]
NoLsn == -1

\* handle_basebackup_request; lsn is NoLsn for None.
HandleBasebackupRequest(timelineid, lsn, tenantid, run) ==
    LET looked == <<GetRepo, GetTimeline>>
        req_lsn == IF lsn = NoLsn THEN lastValid[<<tenantid, timelineid>>] ELSE lsn
        started == looked \o <<Op("find_latest_snapshot", 0)>>
        tarred == started \o (IF lsn = NoLsn THEN <<Op("get_last_valid_lsn", 0)>> ELSE <<>>)
                          \o <<Op("get_prev_record_lsn", 0), Op("send_tarball", req_lsn)>>
        copyout == <<BeMessage("CopyOutResponse")>>
        sent == IF run.wfail \in 2..(run.chunks + 1) THEN run.wfail - 2 ELSE run.chunks
    IN  IF ~TenantRegistered(tenantid) THEN Fail(<<>>, 0, <<GetRepo>>, "tenant_not_found")
        ELSE IF ~TimelineExists(tenantid, timelineid)
        THEN Fail(<<>>, 0, looked, "timeline_not_found")
        ELSE IF run.wfail = 1 THEN IoFail(<<>>, 0, looked)
        ELSE IF ~run.snap THEN Panic(copyout, 1, started)
        ELSE IF sent < run.chunks THEN IoFail(copyout \o Chunks(sent), sent + 1, tarred)
        ELSE IF ~run.tar THEN Fail(copyout \o Chunks(sent), sent + 1, tarred, "repo_error")
        ELSE IF run.wfail = run.chunks + 2
        THEN IoFail(copyout \o Chunks(sent), sent + 1, tarred)
        ELSE Outcome("ok", copyout \o Chunks(sent) \o <<BeMessage("CopyDone")>>, sent + 2,
                     tarred, "none")

\* Mutant: CommandComplete is written before the basebackup is made.
BasebackupOutcome_CommandCompleteFirst(args, run) ==
    IF Len(args) # 2 \/ ~\A i \in 1..2 : IsId(args[i])
    THEN Fail(<<>>, 0, <<>>, "syntax")
    ELSE LET h == HandleBasebackupRequest(args[2], NoLsn, args[1], run)
         IN  IF h.out = <<>> THEN h
             ELSE IF h.pc = "ok"
             THEN ToFlush(<<CommandComplete>> \o h.out, h.flushed, h.ops)
             ELSE Outcome(h.pc, <<CommandComplete>> \o h.out, h.flushed, h.ops, h.res)

\* process_query, the "basebackup " branch.
BasebackupOutcome(args, run) ==
    IF Len(args) # 2 \/ ~\A i \in 1..2 : IsId(args[i])
    THEN Fail(<<>>, 0, <<>>, "syntax")
    ELSE IF Len(args) = 3 /\ ~IsLsn(args[3]) THEN Fail(<<>>, 0, <<>>, "syntax")
    ELSE LET lsn == IF Len(args) = 3 THEN LsnOf(args[3]) ELSE NoLsn
             h == HandleBasebackupRequest(args[2], lsn, args[1], run)
         IN  IF h.pc = "ok"
             THEN ToFlush(Append(h.out, CommandComplete), h.flushed, h.ops)
             ELSE h

QueryBasebackup(c) ==
    /\ QueryReady(c)
    /\ \E q \in Dispatched("basebackup") : \E args \in {q.args} :
      \E run \in IF BasebackupOutcome(args, NoRun).res = "syntax" THEN {NoRun}
                  ELSE BasebackupRuns :
        Handled(c, q, BasebackupOutcome(args, run))
    /\ UNCHANGED sharedVars

(***************************************************************************)
(* callmemaybe                                                             *)
(***************************************************************************)
\* ^callmemaybe ([[:xdigit:]]+) ([[:xdigit:]]+) (.*)$
CallmemaybeParses(args) ==
    Len(args) = 3 /\ IsXDigits(args[1]) /\ IsXDigits(args[2])

CallmemaybeOutcome(args) ==
    IF ~CallmemaybeParses(args) THEN Fail(<<>>, 0, <<>>, "syntax")
    ELSE IF ~IsId(args[1]) \/ ~IsId(args[2]) THEN Fail(<<>>, 0, <<>>, "syntax")
    ELSE IF ~TenantRegistered(args[1]) THEN Fail(<<>>, 0, <<GetRepo>>, "tenant_not_found")
    ELSE IF ~TimelineExists(args[1], args[2])
    THEN Fail(<<>>, 0, <<GetRepo, GetTimeline>>, "timeline_not_found")
    ELSE ToFlush(<<CommandComplete>>, 0,
                 <<GetRepo, GetTimeline, Op("launch_wal_receiver", 0)>>)

\* Mutant: every launch starts one more worker.
LaunchWalReceiver_AlwaysSpawns(running, timelineid, connstr, tenantid) ==
    running \cup {<<tenantid, timelineid, connstr>>}

\* walreceiver::launch_wal_receiver: idempotent per (tenant, timeline).  A
\* timeline that has its worker keeps it, pointed at the new connection string.
LaunchWalReceiver(running, timelineid, connstr, tenantid) ==
    {r \in running : ~(r[1] = tenantid /\ r[2] = timelineid)}
        \cup {<<tenantid, timelineid, connstr>>}

\* process_query, the "callmemaybe " branch.
QueryCallmemaybe(c) ==
    /\ QueryReady(c)
    /\ \E q \in Dispatched("callmemaybe") : \E args \in {q.args} :
        LET h == CallmemaybeOutcome(args) IN
        /\ Handled(c, q, h)
        /\ walreceivers' = IF "launch_wal_receiver" \in OpNames(h.ops)
                           THEN Append(walreceivers, <<args[1], args[2], args[3]>>)
                           ELSE walreceivers
        /\ receivers' = IF "launch_wal_receiver" \in OpNames(h.ops)
                        THEN LaunchWalReceiver(receivers, args[2], args[3], args[1])
                        ELSE receivers
    /\ UNCHANGED <<registry, nextRepo, repoTimelines, lastValid, created>>

(***************************************************************************)
(* branch_create, branch_list, tenant_list, tenant_create                  *)
(***************************************************************************)
\* branches::create_branch and branches::get_branches: the tenant is looked up
\* before anything else is done; fails: the rest of the call fails.
BranchesCall(name, tenantid, fails) ==
    IF ~TenantRegistered(tenantid) THEN Fail(<<>>, 0, <<GetRepo>>, "tenant_not_found")
    ELSE IF fails THEN Fail(<<>>, 0, <<GetRepo, Op(name, 0)>>, "repo_error")
    ELSE ToFlush(<<SINGLE_COL_ROWDESC, BeRow("DataRow", <<name>>), CommandComplete>>, 0,
                 <<GetRepo, Op(name, 0)>>)

\* ^branch_create ([[:xdigit:]]+) (\S+) ([^\r\n\s;]+)[\r\n\s;]*;?$
BranchCreateOutcome(args, fails) ==
    IF Len(args) # 3 \/ ~IsXDigits(args[1]) THEN Fail(<<>>, 0, <<>>, "syntax")
    ELSE IF ~IsId(args[1]) THEN Fail(<<>>, 0, <<>>, "syntax")
    ELSE BranchesCall("create_branch", args[1], fails)

\* process_query, the "branch_create " branch.
QueryBranchCreate(c) ==
    /\ QueryReady(c)
    /\ \E q \in Dispatched("branch_create") : \E args \in {q.args} :
      \E fails \in IF Len(args) = 3 THEN BOOLEAN ELSE {FALSE} :
        Handled(c, q, BranchCreateOutcome(args, fails))
    /\ UNCHANGED sharedVars

\* ^branch_list ([[:xdigit:]]+)$
BranchListOutcome(args, fails) ==
    IF Len(args) # 1 \/ ~IsXDigits(args[1]) THEN Fail(<<>>, 0, <<>>, "syntax")
    ELSE IF ~IsId(args[1]) THEN Fail(<<>>, 0, <<>>, "syntax")
    ELSE BranchesCall("get_branches", args[1], fails)

\* process_query, the "branch_list " branch.
QueryBranchList(c) ==
    /\ QueryReady(c)
    /\ \E q \in Dispatched("branch_list") : \E args \in {q.args} :
      \E fails \in IF Len(args) = 1 THEN BOOLEAN ELSE {FALSE} :
        Handled(c, q, BranchListOutcome(args, fails))
    /\ UNCHANGED sharedVars

\* The registry's list(): the registered tenants, in id order.
IsRegisteredId(t) == registry[t] # 0
TenantList == SelectSeq(<<"11", "22">>, IsRegisteredId)

\* Mutant: the DataRow is written from an empty buffer, not from tenants_buf.
TenantListOutcome_EmptyRow(fails) ==
    IF fails THEN Fail(<<>>, 0, <<Op("get_tenants", 0)>>, "repo_error")
    ELSE ToFlush(<<SINGLE_COL_ROWDESC, BeRow("DataRow", <<>>), CommandComplete>>, 0,
                 <<Op("get_tenants", 0)>>)

\* process_query, the "tenant_list" branch; fails: get_tenants fails.
TenantListOutcome(fails) ==
    IF fails THEN Fail(<<>>, 0, <<Op("get_tenants", 0)>>, "repo_error")
    ELSE ToFlush(<<SINGLE_COL_ROWDESC, BeRow("DataRow", TenantList), CommandComplete>>, 0,
                 <<Op("get_tenants", 0)>>)

QueryTenantList(c) ==
    /\ QueryReady(c)
    /\ \E q \in Dispatched("tenant_list"), fails \in BOOLEAN :
        Handled(c, q, TenantListOutcome(fails))
    /\ UNCHANGED sharedVars

\* page_cache::insert_repository_for_tenant: Ok, or Conflict with the registry
\* left as it is.
InsertRepository(reg, tenantid, repo) ==
    IF reg[tenantid] # 0 THEN reg ELSE [reg EXCEPT ![tenantid] = repo]

\* Mutant: tenant_create builds the repository and never inserts it.
RegistryAfterCreate_NotInserted(tenantid, repo) == registry

\* What tenant_create leaves in the registry: the result of the insert is not
\* looked at.
RegistryAfterCreate(tenantid, repo) == InsertRepository(registry, tenantid, repo)

\* ^tenant_create ([[:xdigit:]]+)$; fails: branches::create_repo fails.
TenantCreateOutcome(args, fails) ==
    IF Len(args) # 1 \/ ~IsXDigits(args[1]) THEN Fail(<<>>, 0, <<>>, "syntax")
    ELSE IF ~IsId(args[1]) THEN Fail(<<>>, 0, <<>>, "syntax")
    ELSE IF fails
    THEN Fail(<<>>, 0, <<Op("PostgresRedoManager::new", 0), Op("create_repo", 0)>>,
              "repo_error")
    ELSE ToFlush(<<SINGLE_COL_ROWDESC, CommandComplete>>, 0,
                 <<Op("PostgresRedoManager::new", 0), Op("create_repo", nextRepo),
                   Op("insert_repository_for_tenant", nextRepo)>>)

\* process_query, the "tenant_create" branch.
QueryTenantCreate(c) ==
    /\ QueryReady(c)
    /\ \E q \in Dispatched("tenant_create") : \E args \in {q.args} :
      \E fails \in IF Len(args) = 1 THEN BOOLEAN ELSE {FALSE} :
        LET h == TenantCreateOutcome(args, fails)
            inserted == "insert_repository_for_tenant" \in OpNames(h.ops)
        IN  /\ Handled(c, q, h)
            /\ nextRepo' = IF inserted THEN nextRepo + 1 ELSE nextRepo
            /\ registry' = IF inserted THEN RegistryAfterCreate(args[1], nextRepo)
                           ELSE registry
            /\ repoTimelines' = IF inserted /\ registry'[args[1]] = nextRepo
                                THEN [repoTimelines EXCEPT ![args[1]] = {}]
                                ELSE repoTimelines
    /\ UNCHANGED <<lastValid, walreceivers, receivers, created>>

(***************************************************************************)
(* push                                                                    *)
(***************************************************************************)
\* ^push ([[:xdigit:]]+) ([[:xdigit:]]+)$
PushParses(args) == Len(args) = 2 /\ IsXDigits(args[1]) /\ IsXDigits(args[2])

\* Mutant: the client is switched to COPYIN before the repository is looked up.
PushEnter_CopyInFirst(args, made, wok) ==
    IF ~PushParses(args) THEN Fail(<<>>, 0, <<>>, "syntax")
    ELSE IF ~IsId(args[1]) \/ ~IsId(args[2]) THEN Fail(<<>>, 0, <<>>, "syntax")
    ELSE IF ~wok THEN IoFail(<<>>, 0, <<>>)
    ELSE IF ~TenantRegistered(args[1])
    THEN Fail(<<BeMessage("CopyInResponse")>>, 1, <<GetRepo>>, "tenant_not_found")
    ELSE IF ~made
    THEN Fail(<<BeMessage("CopyInResponse")>>, 1,
              <<GetRepo, Op("create_empty_timeline", 0)>>, "repo_error")
    ELSE Outcome("push", <<BeMessage("CopyInResponse")>>, 1,
                 <<GetRepo, Op("create_empty_timeline", 0)>>, "none")

\* The "push " branch up to its read loop; made: create_empty_timeline
\* succeeds; wok: the write of CopyInResponse succeeds.
PushEnter(args, made, wok) ==
    IF ~PushParses(args) THEN Fail(<<>>, 0, <<>>, "syntax")
    ELSE IF ~IsId(args[1]) \/ ~IsId(args[2]) THEN Fail(<<>>, 0, <<>>, "syntax")
    ELSE IF ~TenantRegistered(args[1]) THEN Fail(<<>>, 0, <<GetRepo>>, "tenant_not_found")
    ELSE IF ~made THEN Fail(<<>>, 0, <<GetRepo, Op("create_empty_timeline", 0)>>, "repo_error")
    ELSE IF ~wok THEN IoFail(<<>>, 0, <<GetRepo, Op("create_empty_timeline", 0)>>)
    ELSE Outcome("push", <<BeMessage("CopyInResponse")>>, 1,
                 <<GetRepo, Op("create_empty_timeline", 0)>>, "none")

\* process_query, the "push " branch.
QueryPush(c) ==
    /\ QueryReady(c)
    /\ \E q \in Dispatched("push") : \E args \in {q.args} :
      \E made \in IF PushParses(args) THEN BOOLEAN ELSE {TRUE},
         wok \in IF PushParses(args) THEN BOOLEAN ELSE {TRUE} :
        LET h == PushEnter(args, made, wok)
            timeline == "create_empty_timeline" \in OpNames(h.ops) /\ made
        IN  /\ Handled(c, q, h)
            /\ repoTimelines' = IF timeline
                                THEN [repoTimelines EXCEPT ![args[1]] = @ \cup {args[2]}]
                                ELSE repoTimelines
            /\ lastValid' = IF timeline THEN [lastValid EXCEPT ![<<args[1], args[2]>>] = 0]
                            ELSE lastValid
    /\ UNCHANGED <<registry, nextRepo, walreceivers, receivers, created>>

\* A CopyData of a push deserializes to a Modification unless it is empty.
PushInbound ==
    {FeCopyData(26, 0, l) : l \in 1..MaxLsn}
        \cup {FeCopyData(0, 0, 0), FeOther("CopyDone"), FeOther("Sync"), FeOther("Flush")}

\* Timeline::advance_last_valid_lsn
AdvanceLastValidLsn(old, lsn) == Max(old, lsn)

\* The LSN push hands to advance_last_valid_lsn on CopyDone.
PushAdvanceTo(c) == last_lsn[c]

\* Mutant: a push whose client is gone before CopyDone is an error.
PushLoopEnds_EofIsError(c) == Fail(out[c], flushed[c], ops[c], "closed_unexpectedly")

\* read_message() gave Ok(None): the while-let loop of push ends and
\* CommandComplete is written.
PushLoopEnds(c) == ToFlush(Append(out[c], CommandComplete), flushed[c], ops[c])

\* Mutant: a message push does not expect is skipped, as Sync is.
PushUnexpected_Skipped(c) == Outcome("push", out[c], flushed[c], ops[c], "none")

\* _ => bail!("unexpected message {:?}", msg)
PushUnexpected(c) == Fail(out[c], flushed[c], ops[c], "unexpected_message")

\* One turn of the push loop: read_message and the match on the message;
\* putok: put_raw_data succeeds.
PushRead(c) ==
    /\ pc[c] = "push"
    /\ LET tl == <<cmd[c].args[1], cmd[c].args[2]>>
           done == PushLoopEnds(c)
       IN
       \/ \* read_message()? fails
          /\ Continued(c, IoFail(out[c], flushed[c], ops[c]))
          /\ UNCHANGED <<eof, copyVars, lastValid>>
       \/ \* Ok(None): the loop ends
          /\ Continued(c, done)
          /\ eof' = [eof EXCEPT ![c] = TRUE]
          /\ UNCHANGED <<copyVars, lastValid>>
       \/ /\ nread[c] < workload.msgs
          /\ \E msg \in PushInbound, putok \in BOOLEAN :
                /\ nread' = [nread EXCEPT ![c] = @ + 1]
                /\ inmsg' = [inmsg EXCEPT ![c] = msg]
                /\ CASE msg.type = "CopyData" /\ msg.len = 0 ->
                            /\ Continued(c, Fail(out[c], flushed[c], ops[c], "des_error"))
                            /\ UNCHANGED <<last_lsn, puts, lastValid>>
                     [] msg.type = "CopyData" /\ msg.len > 0 ->
                            /\ last_lsn' = [last_lsn EXCEPT ![c] = msg.lsn]
                            /\ IF putok
                               THEN /\ puts' = [puts EXCEPT ![c] = Append(@, msg.lsn)]
                                    /\ Continued(c, Outcome("push", out[c], flushed[c],
                                            Append(ops[c], Op("put_raw_data", msg.lsn)),
                                            "none"))
                               ELSE /\ puts' = puts
                                    /\ Continued(c, Fail(out[c], flushed[c],
                                            Append(ops[c], Op("put_raw_data", msg.lsn)),
                                            "repo_error"))
                            /\ UNCHANGED lastValid
                     [] msg.type = "CopyDone" ->
                            /\ lastValid' = [lastValid EXCEPT ![tl] =
                                    AdvanceLastValidLsn(@, PushAdvanceTo(c))]
                            /\ Continued(c, ToFlush(Append(out[c], CommandComplete),
                                    flushed[c],
                                    Append(ops[c], Op("advance_last_valid_lsn",
                                                      PushAdvanceTo(c)))))
                            /\ UNCHANGED <<last_lsn, puts>>
                     [] msg.type = "Sync" ->
                            /\ Continued(c, Outcome("push", out[c], flushed[c], ops[c], "none"))
                            /\ UNCHANGED <<last_lsn, puts, lastValid>>
                     [] OTHER ->
                            /\ Continued(c, PushUnexpected(c))
                            /\ UNCHANGED <<last_lsn, puts, lastValid>>
                /\ UNCHANGED <<eof, reqs, pending>>
    /\ UNCHANGED <<registry, nextRepo, repoTimelines, walreceivers, receivers, created>>

(***************************************************************************)
(* request_push, do_gc, controlfile, status, set, unknown commands         *)
(***************************************************************************)
\* ^request_push ([[:xdigit:]]+) ([[:xdigit:]]+) (.*)$
RequestPushParses(args) == Len(args) = 3 /\ IsXDigits(args[1]) /\ IsXDigits(args[2])

\* The arguments of the command request_push sends to its peer:
\* format!("push {}", timelineid).
PeerPushArgs(tenantid, timelineid) == <<timelineid>>

\* connects: postgres::Client::connect succeeds; histok: history() and its
\* updates are read without error.  The peer is a page server: it takes the
\* command if its own "push " branch parses it.
RequestPushOutcome(args, connects, histok) ==
    LET looked == <<GetRepo, GetTimeline>> IN
    IF ~RequestPushParses(args) THEN Fail(<<>>, 0, <<>>, "syntax")
    ELSE IF ~IsId(args[1]) \/ ~IsId(args[2]) THEN Fail(<<>>, 0, <<>>, "syntax")
    ELSE IF ~TenantRegistered(args[1]) THEN Fail(<<>>, 0, <<GetRepo>>, "tenant_not_found")
    ELSE IF ~TimelineExists(args[1], args[2]) THEN Fail(<<>>, 0, looked, "timeline_not_found")
    ELSE IF ~connects THEN Fail(<<>>, 0, Append(looked, Op("connect", 0)), "peer_error")
    ELSE IF ~PushParses(PeerPushArgs(args[1], args[2]))
    THEN Fail(<<>>, 0, looked \o <<Op("connect", 0), Op("copy_in", 0)>>, "peer_error")
    ELSE IF ~histok
    THEN Fail(<<>>, 0, looked \o <<Op("connect", 0), Op("copy_in", 0), Op("history", 0)>>,
              "repo_error")
    ELSE ToFlush(<<CommandComplete>>, 0,
                 looked \o <<Op("connect", 0), Op("copy_in", 0), Op("history", 0),
                             Op("finish", 0)>>)

\* process_query, the "request_push " branch.
QueryRequestPush(c) ==
    /\ QueryReady(c)
    /\ \E q \in Dispatched("request_push") : \E args \in {q.args} :
      \E connects \in IF RequestPushParses(args) THEN BOOLEAN ELSE {TRUE},
         histok \in IF RequestPushParses(args) THEN BOOLEAN ELSE {TRUE} :
        Handled(c, q, RequestPushOutcome(args, connects, histok))
    /\ UNCHANGED sharedVars

\* conf.gc_horizon when the configuration names none: DEFAULT_GC_HORIZON.
ConfGcHorizon == 64 * 1024 * 1024

\* ^do_gc ([[:xdigit:]]+)\s([[:xdigit:]]+)($|\s)([[:digit:]]+)?
DoGcParses(args) == Len(args) >= 2 /\ IsXDigits(args[1]) /\ IsXDigits(args[2])
\* The fourth group: the digits that start the third token, if any do.
DoGcHasHorizon(args) == Len(args) >= 3 /\ args[3] \in HexIds \cup {"64", "0/2"}
\* str::parse::<u64>: a 32-digit number does not fit.
HorizonParses(tok) == tok \in {"64", "0/2"}
\* The number the digits give: the regex is not anchored at its end, and of
\* 0/2 it takes the 0.
HorizonOf(tok) == IF tok = "64" THEN 64 ELSE 0
\* Mutant: the horizon of the command is ignored.
GcHorizon_AlwaysDefault(args) == ConfGcHorizon

\* gc_horizon: the fourth group parsed, or conf.gc_horizon when it is absent.
GcHorizon(args) == IF DoGcHasHorizon(args) THEN HorizonOf(args[3]) ELSE ConfGcHorizon

\* The names of the RowDescriptors, in the order they are written.
GcColumns ==
    <<"n_relations", "truncated", "deleted", "prep_deleted", "slru_deleted",
      "chkp_deleted", "dropped", "elapsed">>

\* What gc_iteration returns: the counters and the time taken (microseconds).
GcResult(rels, trunc, del, prep, slru, chkp, drop, micros) ==
    [n_relations |-> rels, truncated |-> trunc, deleted |-> del, prep_deleted |-> prep,
     slru_deleted |-> slru, chkp_deleted |-> chkp, dropped |-> drop, elapsed |-> micros]
GcResults == {GcResult(11, 12, 13, 14, 15, 16, 17, 8500), GcResult(0, 0, 0, 0, 0, 0, 0, 999)}
NoGcResult == GcResult(0, 0, 0, 0, 0, 0, 0, 0)

\* u64::to_string / u128::to_string: the decimal digits.
DecimalDigits == <<"0", "1", "2", "3", "4", "5", "6", "7", "8", "9">>
RECURSIVE DecimalString(_)
DecimalString(n) ==
    IF n < 10 THEN DecimalDigits[n + 1]
    ELSE DecimalString(n \div 10) \o DecimalDigits[(n % 10) + 1]
\* Duration::as_millis
AsMillis(micros) == micros \div 1000

\* Mutant: the values of deleted and truncated are written in each other's place.
GcResultRow_DeletedBeforeTruncated(result) ==
    <<DecimalString(result.n_relations), DecimalString(result.deleted),
      DecimalString(result.truncated), DecimalString(result.prep_deleted),
      DecimalString(result.slru_deleted), DecimalString(result.chkp_deleted),
      DecimalString(result.dropped), DecimalString(AsMillis(result.elapsed))>>

\* The values of the DataRow, in the order they are written.
GcResultRow(result) ==
    <<DecimalString(result.n_relations), DecimalString(result.truncated),
      DecimalString(result.deleted), DecimalString(result.prep_deleted),
      DecimalString(result.slru_deleted), DecimalString(result.chkp_deleted),
      DecimalString(result.dropped), DecimalString(AsMillis(result.elapsed))>>

\* timeline.gc_iteration(gc_horizon, true) and what it returned.
GcIteration(horizon, compact, result) ==
    [op |-> "gc_iteration", n |-> horizon, compact |-> compact, result |-> result]

\* gcok: gc_iteration succeeds, with result; wok: the flushing write of
\* CommandComplete succeeds.
DoGcOutcome(args, gcok, result, wok) ==
    LET looked == <<GetRepo, GetTimeline>>
        horizon == GcHorizon(args)
        rows == <<BeRow("RowDescription", GcColumns), BeRow("DataRow", GcResultRow(result))>>
        called == Append(looked, GcIteration(horizon, TRUE, IF gcok THEN result ELSE NoGcResult))
    IN
    IF ~DoGcParses(args) THEN Fail(<<>>, 0, <<>>, "syntax")
    ELSE IF ~IsId(args[1]) \/ ~IsId(args[2]) THEN Fail(<<>>, 0, <<>>, "syntax")
    ELSE IF DoGcHasHorizon(args) /\ ~HorizonParses(args[3]) THEN Fail(<<>>, 0, <<>>, "syntax")
    ELSE IF ~TenantRegistered(args[1]) THEN Fail(<<>>, 0, <<GetRepo>>, "tenant_not_found")
    ELSE IF ~TimelineExists(args[1], args[2]) THEN Fail(<<>>, 0, looked, "timeline_not_found")
    ELSE IF ~gcok THEN Fail(<<>>, 0, called, "repo_error")
    ELSE IF ~wok THEN IoFail(rows, 0, called)
    ELSE ToFlush(Append(rows, CommandComplete), 3, called)

\* process_query, the "do_gc " branch.
QueryDoGc(c) ==
    /\ QueryReady(c)
    /\ \E q \in Dispatched("do_gc") : \E args \in {q.args} :
      \E gcok \in IF DoGcParses(args) THEN BOOLEAN ELSE {TRUE},
         result \in IF DoGcParses(args) THEN GcResults ELSE {NoGcResult},
         wok \in IF DoGcParses(args) THEN BOOLEAN ELSE {TRUE} :
        Handled(c, q, DoGcOutcome(args, gcok, result, wok))
    /\ UNCHANGED sharedVars

\* handle_controlfile; wok: its flushing write of CommandComplete succeeds.
HandleControlfile(wok) ==
    IF wok THEN ToFlush(<<SINGLE_COL_ROWDESC, BeMessage("ControlFile"), CommandComplete>>, 3, <<>>)
    ELSE IoFail(<<SINGLE_COL_ROWDESC, BeMessage("ControlFile")>>, 0, <<>>)

\* process_query, the "controlfile" branch.
QueryControlfile(c) ==
    /\ QueryReady(c)
    /\ \E q \in Dispatched("controlfile"), wok \in BOOLEAN :
        Handled(c, q, HandleControlfile(wok))
    /\ UNCHANGED sharedVars

\* process_query, the "status" branch.
QueryStatus(c) ==
    /\ QueryReady(c)
    /\ \E q \in Dispatched("status") : \E args \in {q.args} :
        Handled(c, q,
                ToFlush(<<SINGLE_COL_ROWDESC, BeMessage("HELLO_WORLD_ROW"), CommandComplete>>,
                        0, <<>>))
    /\ UNCHANGED sharedVars

\* process_query, the branch of to_ascii_lowercase().starts_with("set ").
QuerySet(c) ==
    /\ QueryReady(c)
    /\ \E q \in Dispatched("set") :
        Handled(c, q, ToFlush(<<CommandComplete>>, 0, <<>>))
    /\ UNCHANGED sharedVars

\* Mutant: an unknown command ends the connection.
UnknownCommand_ClosesConnection == IoFail(<<>>, 0, <<>>)

\* bail!("unknown command")
UnknownCommand == Fail(<<>>, 0, <<>>, "unknown_command")

\* process_query, the final else.
QueryUnknown(c) ==
    /\ QueryReady(c)
    /\ \E q \in Dispatched("unknown") : Handled(c, q, UnknownCommand)
    /\ UNCHANGED sharedVars

(***************************************************************************)
(* process_query's end: pgb.flush()?; Ok(())                               *)
(***************************************************************************)
\* Mutant: process_query returns Ok(()) without its final flush.
FlushOutcome_ReturnsUnflushed(c, wok) ==
    IF wok THEN Outcome("done", out[c], flushed[c], ops[c], "ok")
    ELSE IoFail(out[c], flushed[c], ops[c])

FlushOutcome(c, wok) ==
    IF wok THEN Outcome("done", out[c], Len(out[c]), ops[c], "ok")
    ELSE IoFail(out[c], flushed[c], ops[c])

Flush(c) ==
    /\ pc[c] = "flush"
    /\ \E wok \in BOOLEAN :
        /\ Continued(c, FlushOutcome(c, wok))
        /\ created' = IF wok /\ cmd[c].verb = "tenant_create"
                      THEN created \cup {cmd[c].args[1]} ELSE created
    /\ UNCHANGED <<registry, nextRepo, repoTimelines, lastValid, walreceivers, receivers>>
    /\ UNCHANGED <<eof, copyVars>>

ReadyForQuery == BeMessage("ReadyForQuery")
ErrorResponse(err) == BeRow("ErrorResponse", <<err>>)

\* What PostgresBackend::run writes after process_query returned: the error, if
\* it returned one, as ErrorResponse, and then ReadyForQuery.
RunReply(result) ==
    IF result = "ok" THEN <<ReadyForQuery>> ELSE <<ErrorResponse(result), ReadyForQuery>>

\* PostgresBackend::run, after process_query returned: the reply is written and
\* the worker is back to waiting for the next query, unless the client is gone;
\* wok: the flushing write of ReadyForQuery succeeds.
ReadNext(c) ==
    /\ pc[c] = "done"
    /\ ~eof[c]
    /\ \E wok \in BOOLEAN :
        /\ pc' = [pc EXCEPT ![c] = IF wok THEN "ready" ELSE "closed"]
        /\ out' = [out EXCEPT ![c] = IF wok THEN RunReply(res[c]) ELSE <<>>]
        /\ flushed' = [flushed EXCEPT ![c] = IF wok THEN Len(RunReply(res[c])) ELSE 0]
        /\ res' = [res EXCEPT ![c] = IF wok THEN "none" ELSE "io_error"]
    /\ prev' = [prev EXCEPT ![c] = res[c]]
    /\ cmd' = [cmd EXCEPT ![c] = NoQuery]
    /\ ops' = [ops EXCEPT ![c] = <<>>]
    /\ seen' = [seen EXCEPT ![c] = {}]
    /\ nread' = [nread EXCEPT ![c] = 0]
    /\ inmsg' = [inmsg EXCEPT ![c] = FeOther("none")]
    /\ reqs' = [reqs EXCEPT ![c] = <<>>]
    /\ pending' = [pending EXCEPT ![c] = NoResponse]
    /\ last_lsn' = [last_lsn EXCEPT ![c] = 0]
    /\ puts' = [puts EXCEPT ![c] = <<>>]
    /\ UNCHANGED <<nq, eof, workload, listener, sharedVars, walVars, restVars>>

Next ==
    \/ QueryPagestream("c1")
    \/ QueryBasebackup("c1")
    \/ QueryCallmemaybe("c1")
    \/ QueryBranchCreate("c1")
    \/ QueryBranchList("c1")
    \/ QueryTenantList("c1")
    \/ QueryTenantCreate("c1")
    \/ QueryPush("c1")
    \/ PushRead("c1")
    \/ QueryRequestPush("c1")
    \/ QueryDoGc("c1")
    \/ QueryControlfile("c1")
    \/ QueryStatus("c1")
    \/ QuerySet("c1")
    \/ QueryUnknown("c1")
    \/ PagestreamRead("c1")
    \/ PagestreamWrite("c1")
    \/ Flush("c1")
    \/ ReadNext("c1")

Spec == Init /\ [][Next]_vars

\* One pagestream session of up to MaxMsgs inbound messages.
InitPagestream == Started /\ workload = [queries |-> 1, msgs |-> MaxMsgs]
NextPagestream ==
    \/ QueryPagestream("c1")
    \/ PagestreamRead("c1")
    \/ PagestreamWrite("c1")
    \/ Flush("c1")
SpecPagestream == InitPagestream /\ [][NextPagestream]_vars

\* One push session of up to MaxMsgs inbound messages.
InitPush == Started /\ workload = [queries |-> 1, msgs |-> MaxMsgs]
NextPush ==
    \/ QueryPush("c1")
    \/ PushRead("c1")
    \/ Flush("c1")
SpecPush == InitPush /\ [][NextPush]_vars

\* Two connections, one query each: the verbs that register, list and look up
\* tenants.  No message is sent inside a COPY session: it ends with the client.
InitRegistry == Started /\ workload = [queries |-> 1, msgs |-> 0]
NextRegistry ==
    \/ \E c \in Conns : QueryTenantCreate(c)
    \/ \E c \in Conns : QueryTenantList(c)
    \/ \E c \in Conns : QueryPagestream(c)
    \/ \E c \in Conns : QueryBasebackup(c)
    \/ \E c \in Conns : QueryPush(c)
    \/ \E c \in Conns : PagestreamRead(c)
    \/ \E c \in Conns : PushRead(c)
    \/ \E c \in Conns : Flush(c)
    \/ \E c \in Conns : ReadNext(c)
SpecRegistry == InitRegistry /\ [][NextRegistry]_vars

\* Two connections that each send one callmemaybe.
InitCallmemaybe == Started /\ workload = [queries |-> 1, msgs |-> 0]
NextCallmemaybe ==
    \/ \E c \in Conns : QueryCallmemaybe(c)
    \/ \E c \in Conns : Flush(c)
    \/ \E c \in Conns : ReadNext(c)
SpecCallmemaybe == InitCallmemaybe /\ [][NextCallmemaybe]_vars

(***************************************************************************)
(* The connection supervisor: thread_main and page_service_conn_main       *)
(***************************************************************************)
\* One turn of thread_main's loop, as what the accept loop is afterwards;
\* accepted: listener.accept() succeeds; nodelay: socket.set_nodelay(true) does.
ThreadMainTurn(accepted, nodelay) ==
    IF ~accepted THEN "accept_error"
    ELSE IF ~nodelay THEN "panicked"
    ELSE "accepting"

\* thread_main takes the connection of client c.
Accept(c) ==
    /\ listener = "accepting"
    /\ pc[c] = "unaccepted"
    /\ \E accepted \in BOOLEAN, nodelay \in BOOLEAN :
        LET turn == ThreadMainTurn(accepted, nodelay) IN
        /\ listener' = turn
        /\ pc' = CASE turn = "accepting" -> [pc EXCEPT ![c] = "spawned"]
                   [] turn = "panicked" -> [pc EXCEPT ![c] = "dropped"]
                   [] OTHER -> pc
    /\ UNCHANGED <<cmd, out, flushed, ops, res, nq, eof, seen, prev, workload>>
    /\ UNCHANGED <<sharedVars, copyVars, walVars, restVars>>

\* main (bin/pageserver.rs): page_service_thread.join().expect(..)? returns
\* once thread_main has ended, main ends and the process with it.
MainJoin ==
    /\ listener \in {"accept_error", "panicked"}
    /\ \E c \in Conns : pc[c] # "exited"
    /\ pc' = [c \in Conns |-> "exited"]
    /\ UNCHANGED <<cmd, out, flushed, ops, res, nq, eof, seen, prev, workload, listener>>
    /\ UNCHANGED <<sharedVars, copyVars, walVars, restVars>>

\* page_service_conn_main up to pgbackend.run; made: PostgresBackend::new(..)?
\* succeeds.
ConnMain(c) ==
    /\ pc[c] = "spawned"
    /\ \E made \in BOOLEAN :
        Continued(c, IF made THEN Outcome("ready", <<>>, 0, <<>>, "none")
                     ELSE IoFail(<<>>, 0, <<>>))
    /\ UNCHANGED <<eof, copyVars, sharedVars>>

\* Two clients connect; each sends at most one query, and one message inside a
\* pagestream session.
InitService ==
    /\ Booted
    /\ pc = [c \in Conns |-> "unaccepted"]
    /\ workload = [queries |-> 1, msgs |-> CopyMsgs]
NextService ==
    \/ \E c \in Conns : Accept(c)
    \/ MainJoin
    \/ \E c \in Conns : ConnMain(c)
    \/ \E c \in Conns : QueryPagestream(c)
    \/ \E c \in Conns : PagestreamRead(c)
    \/ \E c \in Conns : PagestreamWrite(c)
    \/ \E c \in Conns : QueryStatus(c)
    \/ \E c \in Conns : Flush(c)
    \/ \E c \in Conns : ReadNext(c)
SpecService == InitService /\ [][NextService]_vars

(***************************************************************************)
(* Startup: start_pageserver (bin/pageserver.rs)                           *)
(***************************************************************************)
\* start_pageserver returns Err(err) from where it is.
StartReturns(err) ==
    /\ spc' = "returned"
    /\ sres' = err
    /\ UNCHANGED <<threads, listener>>

\* start_pageserver goes on to its next step.
StartGoesOn(next) ==
    /\ spc' = next
    /\ UNCHANGED sres

StartUnchanged ==
    UNCHANGED <<sharedVars, connVars, copyVars, workload, prev, walVars, sinkVars, uringVars>>

\* logger::init_logging(..)? and slog_stdlog::init()?
InitLogging ==
    /\ spc = "init_logging"
    /\ \E ok \in BOOLEAN :
        IF ok THEN StartGoesOn("daemonize") /\ UNCHANGED <<threads, listener>>
        ELSE StartReturns("logging_error")
    /\ StartUnchanged

\* if conf.daemonize { .. daemonize.start() .. }: a failure is only logged.
Daemonize ==
    /\ spc = "daemonize"
    /\ StartGoesOn("metrics") /\ UNCHANGED <<threads, listener>>
    /\ StartUnchanged

\* thread::Builder::new().name("Metrics thread").spawn(..)?
SpawnMetrics ==
    /\ spc = "metrics"
    /\ \E ok \in BOOLEAN :
        IF ok THEN /\ StartGoesOn("bind")
                   /\ threads' = threads \cup {"metrics"}
                   /\ UNCHANGED listener
        ELSE StartReturns("spawn_error")
    /\ StartUnchanged

\* TcpListener::bind(conf.listen_addr.clone())?
Bind ==
    /\ spc = "bind"
    /\ \E ok \in BOOLEAN :
        IF ok THEN /\ StartGoesOn("page_cache")
                   /\ listener' = "bound"
                   /\ UNCHANGED threads
        ELSE StartReturns("bind_error")
    /\ StartUnchanged

\* page_cache::init(conf): this will spawn walredo_thread
PageCacheInit ==
    /\ spc = "page_cache"
    /\ StartGoesOn("page_service")
    /\ threads' = threads \cup {"walredo"}
    /\ UNCHANGED listener
    /\ StartUnchanged

\* thread::Builder::new().name("Page Service thread").spawn(..)?: thread_main
\* runs with the listener.
SpawnPageService ==
    /\ spc = "page_service"
    /\ \E ok \in BOOLEAN :
        IF ok THEN /\ StartGoesOn("join")
                   /\ threads' = threads \cup {"page_service"}
                   /\ listener' = "accepting"
        ELSE StartReturns("spawn_error")
    /\ StartUnchanged

\* The page server from the call of start_pageserver on; once thread_main runs,
\* two clients connect as in SpecService.
InitStart ==
    /\ Loaded
    /\ tthread = [k \in Tasks |-> "e1"]
    /\ listener = "unbound"
    /\ spc = "init_logging"
    /\ threads = {}
    /\ sres = "none"
    /\ pc = [c \in Conns |-> "unaccepted"]
    /\ workload = [queries |-> 1, msgs |-> CopyMsgs]
NextStart ==
    \/ InitLogging
    \/ Daemonize
    \/ SpawnMetrics
    \/ Bind
    \/ PageCacheInit
    \/ SpawnPageService
    \/ NextService
SpecStart == InitStart /\ [][NextStart]_vars

(***************************************************************************)
(* The WAL receive endpoint: ReceiveWalConn::run                           *)
(***************************************************************************)
pageVars == <<sharedVars, connVars, copyVars, workload, listener, prev>>

\* spg.timeline.get().timelineid: the timeline the handler was opened for.
SpgTimelineId == "11"
Connstrs == {NoConnstr, "ps"}

ProposerInbound ==
    {ProposerCopyData("Greeting", t) : t \in HexIds}
        \cup {ProposerCopyData(tag, "") : tag \in {"VoteRequest", "AppendRequest", "garbage"}}
        \cup {ProposerOther("CopyDone"), ProposerOther("Sync")}

\* ProposerAcceptorMessage::parse
ProposerAcceptorMessageParse(m) == IF m.tag = "garbage" THEN "decode_error" ELSE "ok"

\* Mutant: a message that is not CopyData, or does not decode, is taken as is.
ReadMsg_TakesAnything(m) == "ok"

\* read_msg on a message read_message returned: read_msg_bytes, then parse.
ReadMsg(m) ==
    IF m.type # "CopyData" THEN "expected_copydata" ELSE ProposerAcceptorMessageParse(m)

\* Mutant: every message that decodes is taken for the greeting.
MatchGreeting_AnyMessage(m) == "ok"

\* run's match on the first message.
MatchGreeting(m) == IF m.tag = "Greeting" THEN "ok" ELSE "not_greeting"

WOp(name, ev) == [op |-> name, ev |-> ev]
WOpCount(opsv, name) == Cardinality({i \in 1..Len(opsv) : opsv[i].op = name})

\* Mutant: the subscription is made for the handler's own id, not the greeting's.
SubscribeEvent_NotFromGreeting(greeting, timelineid, connstr) ==
    <<"Subscribe", timelineid, timelineid, connstr>>

\* CallmeEvent::Subscribe(tenant_id, timelineid, pageserver_connstr)
SubscribeEvent(greeting, timelineid, connstr) ==
    <<"Subscribe", greeting.tenant_id, timelineid, connstr>>

\* What run does on the greeting, before its loop.
GreetingOps(greeting) ==
    <<WOp("continue_streaming", <<>>)>>
        \o (IF pageserver_connstr # NoConnstr
            THEN <<WOp("send", SubscribeEvent(greeting, SpgTimelineId, pageserver_connstr))>>
            ELSE <<>>)

\* let _guard = match self.pageserver_connstr { Some(..) => Some(guard), None => None }
NewGuard == pageserver_connstr # NoConnstr

\* Mutant: dropping the guard does not tell the timeline.
DropGuard_NoStop(opsv) == opsv

\* Drop of _guard when run exits: SendWalHandlerGuard::drop, if there is a guard.
DropGuard(opsv) == IF guard THEN Append(opsv, WOp("stop_streaming", <<>>)) ELSE opsv

WalStep(pcv, msgv, guardv, inboxv, eofv, outv, opsv, resv, callmev) ==
    /\ wpc' = pcv
    /\ wmsg' = msgv
    /\ guard' = guardv
    /\ inbox' = inboxv
    /\ weof' = eofv
    /\ wout' = outv
    /\ wops' = opsv
    /\ wres' = resv
    /\ callme' = callmev
    /\ UNCHANGED <<pageserver_connstr, subs, pageVars, restVars>>

\* run returns Err(err): its locals are dropped.
WalReturn(err, inboxv, eofv, opsv) ==
    WalStep("returned", wmsg, FALSE, inboxv, eofv, wout, DropGuard(opsv), err, callme)

\* ReceiveWalConn::new
ReceiveWalConnNew ==
    /\ wpc = "none"
    /\ wpc' = "start"
    /\ pageserver_connstr' \in Connstrs
    /\ UNCHANGED <<wmsg, guard, inbox, weof, wout, wops, wres, callme, subs, pageVars, restVars>>

\* run: write_message(CopyBothResponse)?
WalRunStart ==
    /\ wpc = "start"
    /\ \E wok \in BOOLEAN :
        IF wok
        THEN WalStep("await_greeting", wmsg, guard, inbox, weof,
                     <<BeMessage("CopyBothResponse")>>, wops, wres, callme)
        ELSE WalReturn("io_error", inbox, weof, wops)

\* run from the first read_msg to the loop: the greeting, continue_streaming,
\* the subscription and the guard.  sendok: the event channel is open.
WalGreeting ==
    /\ wpc = "await_greeting"
    /\ \/ WalReturn("io_error", inbox, weof, wops)
       \/ WalReturn("closed_unexpectedly", inbox, TRUE, wops)
       \/ /\ Len(inbox) < workload.msgs
          /\ \E m \in ProposerInbound, sendok \in BOOLEAN :
                LET got == Append(inbox, m)
                    ev == SubscribeEvent(m, SpgTimelineId, pageserver_connstr)
                IN  IF ReadMsg(m) # "ok" THEN WalReturn(ReadMsg(m), got, weof, wops)
                    ELSE IF MatchGreeting(m) # "ok"
                    THEN WalReturn(MatchGreeting(m), got, weof, wops)
                    ELSE WalStep("process", m, NewGuard, got, weof, wout, GreetingOps(m),
                                 wres,
                                 IF pageserver_connstr # NoConnstr /\ sendok
                                 THEN Append(callme, ev) ELSE callme)

\* Mutant: the greeting is kept from the timeline.
ProcessMsg_SkipsGreeting(opsv, msg) ==
    IF msg.tag = "Greeting" THEN opsv ELSE Append(opsv, WOp("process_msg", <<msg.tag>>))

\* spg.timeline.get().process_msg(&msg)
ProcessMsg(opsv, msg) == Append(opsv, WOp("process_msg", <<msg.tag>>))

\* The loop: process_msg(&msg)?; the timeline answers with a reply, with none,
\* or with an error.
WalProcess ==
    /\ wpc = "process"
    /\ \E r \in {"reply", "none", "process_error"} :
        LET called == ProcessMsg(wops, wmsg) IN
        IF r = "process_error" THEN WalReturn(r, inbox, weof, called)
        ELSE WalStep(IF r = "reply" THEN "reply" ELSE "read", wmsg, guard, inbox, weof,
                     wout, called, wres, callme)

\* The loop: write_msg(&reply)?
WalReply ==
    /\ wpc = "reply"
    /\ \E wok \in BOOLEAN :
        IF wok
        THEN WalStep("read", wmsg, guard, inbox, weof, Append(wout, TarChunk), wops, wres,
                     callme)
        ELSE WalReturn("io_error", inbox, weof, wops)

\* The loop: msg = self.read_msg()?
WalRead ==
    /\ wpc = "read"
    /\ \/ WalReturn("io_error", inbox, weof, wops)
       \/ WalReturn("closed_unexpectedly", inbox, TRUE, wops)
       \/ /\ Len(inbox) < workload.msgs
          /\ \E m \in ProposerInbound :
                IF ReadMsg(m) # "ok" THEN WalReturn(ReadMsg(m), Append(inbox, m), weof, wops)
                ELSE WalStep("process", m, guard, Append(inbox, m), weof, wout, wops, wres,
                             callme)

\* The callmemaybe worker takes the next event of its channel.
CallmeWorker ==
    /\ callme # <<>>
    /\ LET ev == Head(callme) IN
        subs' = IF ev[1] = "Subscribe" THEN subs \cup {<<ev[2], ev[3], ev[4]>>}
                ELSE {x \in subs : ~(x[1] = ev[2] /\ x[2] = ev[3])}
    /\ callme' = Tail(callme)
    /\ UNCHANGED <<wpc, pageserver_connstr, wmsg, guard, inbox, weof, wout, wops, wres,
                   pageVars, restVars>>

\* One WAL receive session of up to MaxMsgs inbound messages.
InitReceiveWal == Started /\ workload = [queries |-> 0, msgs |-> MaxMsgs]
NextReceiveWal ==
    \/ ReceiveWalConnNew
    \/ WalRunStart
    \/ WalGreeting
    \/ WalProcess
    \/ WalReply
    \/ WalRead
    \/ CallmeWorker
SpecReceiveWal == InitReceiveWal /\ [][NextReceiveWal]_vars

(***************************************************************************)
(* thread_local_system (virtual_file/io_engine/tokio_epoll_uring_ext.rs)   *)
(***************************************************************************)
\* What System::launch().await gives: a system, an IoUringBuild error of kind
\* OutOfMemory, or another IoUringBuild error.
LaunchResults == {"ok", "oom", "error"}

\* Mutant: a launch that fails for lack of locked memory is fatal too.
LaunchArm_OomIsFatal(launched) == IF launched = "ok" THEN "Ok" ELSE "abort"

\* The match on res: Ok(system), Err(()) to retry, or on_fatal_io_error, which
\* does not return.
LaunchArm(launched) ==
    CASE launched = "ok" -> "Ok"
      [] launched = "oom" -> "Err"
      [] OTHER -> "abort"

\* Mutant: the Handle is made of the state of the thread the task is on when
\* it returns.
HandleOf_CurrentThread(k) == tthread[k]

\* return Handle(thread_local_state)
HandleOf(k) == tstate[k]

UringUnchanged == UNCHANGED <<pageVars, walVars, sinkVars, startVars>>

\* The top of the loop: THREAD_LOCAL.with(|arc| arc.clone()), and the call of
\* get_or_try_init on its cell.
LoopTop(k) ==
    /\ tpc[k] = "loop"
    /\ tpc' = [tpc EXCEPT ![k] = "get_or_try_init"]
    /\ tstate' = [tstate EXCEPT ![k] = tthread[k]]
    /\ tres' = [tres EXCEPT ![k] = "none"]
    /\ UNCHANGED <<cell, permit, launch_attempts, tthread, handle>>
    /\ UringUnchanged

\* get_or_try_init: the cell is initialized and the call returns Ok at once,
\* or the task becomes the one that initializes it and enters the closure
\* (fetch_add on launch_attempts, the backoff, the call of System::launch);
\* while another task initializes the cell the task waits.
GetOrTryInit(k) ==
    /\ tpc[k] = "get_or_try_init"
    /\ LET e == tstate[k] IN
        IF cell[e] = "system"
        THEN /\ tpc' = [tpc EXCEPT ![k] = "returned"]
             /\ handle' = [handle EXCEPT ![k] = HandleOf(k)]
             /\ UNCHANGED <<permit, launch_attempts>>
        ELSE /\ permit[e] = "none"
             /\ launch_attempts[e] < MaxAttempts
             /\ permit' = [permit EXCEPT ![e] = k]
             /\ launch_attempts' = [launch_attempts EXCEPT ![e] = @ + 1]
             /\ tpc' = [tpc EXCEPT ![k] = "launching"]
             /\ UNCHANGED handle
    /\ UNCHANGED <<cell, tthread, tstate, tres>>
    /\ UringUnchanged

\* An .await of the task ends on another executor thread.
Migrate(k) ==
    /\ tpc[k] \in {"get_or_try_init", "launching"}
    /\ \E e \in ExecutorThreads \ {tthread[k]} : tthread' = [tthread EXCEPT ![k] = e]
    /\ UNCHANGED <<cell, permit, launch_attempts, tpc, tstate, tres, handle>>
    /\ UringUnchanged

\* System::launch().await ended, the match on its result, and what
\* thread_local_system does with the result of get_or_try_init.
Launch(k) ==
    /\ tpc[k] = "launching"
    /\ \E launched \in LaunchResults :
        LET e == tstate[k] IN
        /\ tres' = [tres EXCEPT ![k] = launched]
        /\ CASE LaunchArm(launched) = "Ok" ->
                    /\ cell' = [cell EXCEPT ![e] = "system"]
                    /\ permit' = [permit EXCEPT ![e] = "none"]
                    /\ tpc' = [tpc EXCEPT ![k] = "returned"]
                    /\ handle' = [handle EXCEPT ![k] = HandleOf(k)]
             [] LaunchArm(launched) = "Err" ->
                    /\ permit' = [permit EXCEPT ![e] = "none"]
                    /\ tpc' = [tpc EXCEPT ![k] = "loop"]
                    /\ UNCHANGED <<cell, handle>>
             [] OTHER ->
                    /\ tpc' = [t \in Tasks |-> "aborted"]
                    /\ UNCHANGED <<cell, permit, handle>>
    /\ UNCHANGED <<launch_attempts, tthread, tstate>>
    /\ UringUnchanged

\* Handle::deref: cell.get().expect("must be already initialized when using this")
Deref(k) ==
    /\ tpc[k] = "returned"
    /\ tpc' = [tpc EXCEPT ![k] = IF cell[handle[k]] = "system" THEN "used"
                                 ELSE "panicked"]
    /\ UNCHANGED <<cell, permit, launch_attempts, tthread, tstate, tres, handle>>
    /\ UringUnchanged

\* Two tasks, each on one of two executor threads, call thread_local_system.
InitUring ==
    /\ Loaded
    /\ Serving
    /\ tthread \in [Tasks -> ExecutorThreads]
    /\ pc = [c \in Conns |-> "ready"]
    /\ workload = [queries |-> 0, msgs |-> 0]
NextUring ==
    \/ \E k \in Tasks : LoopTop(k)
    \/ \E k \in Tasks : GetOrTryInit(k)
    \/ \E k \in Tasks : Migrate(k)
    \/ \E k \in Tasks : Launch(k)
    \/ \E k \in Tasks : Deref(k)
SpecUring == InitUring /\ [][NextUring]_vars

(***************************************************************************)
(* CopyDataSink, the io::Write the basebackup tarball is written to        *)
(***************************************************************************)
\* The sizes of the buffers a writer hands to write, in bytes.
WriteSizes == {0, 1, 8192, 65535, 65536, 65537, 1048576}

\* A CopyData message whose payload is len bytes of the wr-th write, from
\* offset off on.
CopyDataOf(wr, off, len) == [wr |-> wr, off |-> off, len |-> len]

\* CopyDataSink::write of the wr-th buffer, of n bytes: one
\* write_message(CopyData(data))? of the whole buffer; wok: the write of the
\* message succeeds.
CopyDataSinkWrite(wr, n, wok) == IF wok THEN <<CopyDataOf(wr, 0, n)>> ELSE <<>>

\* What write returns: Ok(data.len()), or the error of write_message.
WriteReturns(n, wok) == IF wok THEN n ELSE -1

SinkWrite ==
    /\ Len(sunk) < MaxWrites
    /\ \A i \in 1..Len(sunk) : sunk[i].ret >= 0
    /\ \E n \in WriteSizes, wok \in BOOLEAN :
        /\ sunk' = Append(sunk, [len |-> n, ret |-> WriteReturns(n, wok)])
        /\ emitted' = emitted \o CopyDataSinkWrite(Len(sunk) + 1, n, wok)
    /\ UNCHANGED <<pageVars, walVars, startVars, uringVars>>

\* One sink, handed up to MaxWrites buffers; a failed write ends its use.
InitSink == Started /\ workload = [queries |-> 0, msgs |-> 0]
NextSink == SinkWrite
SpecSink == InitSink /\ [][NextSink]_vars

(***************************************************************************)
(* Claims about the pagestream session (SpecPagestream).                   *)
(***************************************************************************)
InPagestream(c) == cmd[c].verb = "pagestream" /\ "CopyBothResponse" \in MsgTypes(out[c])
IsCopyData(m) == m.type = "CopyData"
\* The CopyData responses written so far in the session.
Responses(c) == SelectSeq(out[c], IsCopyData)
ExpectedTag(kind) == CASE kind = 0 -> 100 [] kind = 1 -> 101 [] OTHER -> 102
\* A malformed request: shorter than 26 bytes, or its kind byte is not 0, 1, 2.
Malformed(msg) == msg.type = "CopyData" /\ (msg.len < 26 \/ msg.kind \notin {0, 1, 2})

\* C1: every request that parses gets exactly one CopyData response, the k-th
\* response answers the k-th request and carries the tag of its kind (100, 101,
\* 102), and it is written before the next inbound message is read: while the
\* worker reads, nothing is unanswered; only a failed write to the client socket,
\* which ends the session, leaves the last request without its response.
C1_OneResponsePerRequestInOrder ==
    \A c \in Conns : InPagestream(c) =>
        /\ Len(Responses(c)) <= Len(reqs[c])
        /\ Len(reqs[c]) <= Len(Responses(c)) + 1
        /\ pc[c] \notin {"ps_write", "closed"} => Len(Responses(c)) = Len(reqs[c])
        /\ pc[c] = "ps_write" => Len(Responses(c)) + 1 = Len(reqs[c])
        /\ Len(Responses(c)) < Len(reqs[c]) =>
                pc[c] = "ps_write" \/ (pc[c] = "closed" /\ res[c] = "io_error")
        /\ \A k \in 1..Len(Responses(c)) :
                /\ Responses(c)[k].head[1] = ExpectedTag(reqs[c][k].kind)
                /\ out[c][k + 1] = Responses(c)[k]
        /\ flushed[c] = Len(out[c])

C1_Witness ==
    /\ pc["c1"] = "pagestream"
    /\ Len(reqs["c1"]) = 3
    /\ [k \in 1..3 |-> reqs["c1"][k].kind] = <<2, 0, 1>>
    /\ [k \in 1..3 |-> Responses("c1")[k].head[1]] = <<102, 100, 101>>

\* C2: a Read whose get_page_at_lsn failed is answered by Read{ok = false,
\* n_blocks = 0} and 8192 zero bytes, and it does not end the session: right
\* after it the worker writes the response and is reading again, unless the
\* client socket failed or closed.
C2_FailedReadAnswersZeroPage ==
    \A c \in Conns : InPagestream(c) =>
        \A k \in 1..Len(reqs[c]) :
            (reqs[c][k].kind = 2 /\ reqs[c][k].ans.err) =>
                /\ k <= Len(Responses(c)) =>
                        /\ Responses(c)[k].head = <<102, 0, 0, 0, 0, 0>>
                        /\ Responses(c)[k].page = [len |-> 8192, fill |-> 0]
                /\ reqs[c][k].at = nread[c] =>
                        /\ res[c] \in {"none", "ok", "io_error"}
                        /\ pc[c] \in {"ps_write", "pagestream", "flush", "done", "closed"}
                        /\ k > Len(Responses(c)) =>
                                pc[c] = "ps_write" \/ (pc[c] = "closed" /\ res[c] = "io_error")
                        /\ pc[c] = "ps_write" => pending[c].tag = "Read" /\ ~pending[c].ok

\* A failed Read, answered, and the next request on the connection answered too.
C2_Witness ==
    /\ pc["c1"] = "pagestream"
    /\ Len(reqs["c1"]) = 2 /\ Len(Responses("c1")) = 2
    /\ reqs["c1"][1].kind = 2 /\ reqs["c1"][1].ans.err
    /\ Responses("c1")[1].page = ZERO_PAGE
    /\ reqs["c1"][2].kind = 2 /\ ~reqs["c1"][2].ans.err

\* C3 as stated: whatever the kind bytes and the repository's answers, a session
\* ends only by client EOF or a failure of the client socket.
C3_Original_OnlyEofOrSocketEndsSession ==
    \A c \in Conns : InPagestream(c) => res[c] \in {"none", "ok", "io_error"}

\* C3 amended: what the repository answers never ends the session: a session
\* ends by client EOF, by a failure of the client socket, or by a malformed
\* request (an error for an unknown kind byte, a panic for a short payload), and
\* after a well-formed request the worker is writing its response.
C3_RepositoryErrorsNeverEndSession ==
    \A c \in Conns : InPagestream(c) =>
        /\ res[c] \notin {"none", "ok", "io_error"} =>
                /\ Malformed(inmsg[c])
                /\ res[c] = (IF inmsg[c].len < 26 THEN "panic" ELSE "unknown_smgr_tag")
        /\ \A k \in 1..Len(reqs[c]) :
                (reqs[c][k].at = nread[c] /\ reqs[c][k].ans.err) =>
                    /\ res[c] \in {"none", "ok", "io_error"}
                    /\ pc[c] = "ps_write" \/ Len(Responses(c)) = Len(reqs[c])
                            \/ (pc[c] = "closed" /\ res[c] = "io_error")

\* Three requests the repository failed, all answered, the worker reading on.
C3_Witness ==
    /\ pc["c1"] = "pagestream"
    /\ Len(reqs["c1"]) = 3 /\ Len(Responses("c1")) = 3
    /\ \A k \in 1..3 : reqs["c1"][k].ans.err
    /\ {reqs["c1"][k].kind : k \in 1..3} = {0, 1, 2}

\* C4: a CopyData that is not a well-formed request (shorter than 26 bytes, or a
\* kind byte outside 0, 1, 2) ends the session with an error returned from the
\* handler, and gets no response.
C4_MalformedRequestReturnsError ==
    \A c \in Conns : (InPagestream(c) /\ Malformed(inmsg[c])) =>
        /\ res[c] = "unknown_smgr_tag"
        /\ pc[c] = "done"
        /\ Len(Responses(c)) = Len(reqs[c])

(***************************************************************************)
(* Tenant and timeline lookups of the verbs (Spec).                        *)
(***************************************************************************)
\* The verbs that take a tenant and look it up.
TakesTenant ==
    {"pagestream", "basebackup", "callmemaybe", "branch_create", "branch_list", "push",
     "request_push", "do_gc"}
\* The query gets through the parsing of its branch of process_query.
WellFormed(q) ==
    LET a == q.args
        ids(n) == \A i \in 1..n : IsId(a[i])
    IN  CASE q.verb \in {"pagestream", "basebackup", "push"} -> Len(a) = 2 /\ ids(2)
          [] q.verb \in {"callmemaybe", "request_push"} -> Len(a) = 3 /\ ids(2)
          [] q.verb = "branch_create" -> Len(a) = 3 /\ ids(1)
          [] q.verb \in {"branch_list", "tenant_create"} -> Len(a) = 1 /\ ids(1)
          [] q.verb = "do_gc" ->
                Len(a) >= 2 /\ ids(2) /\ (Len(a) = 3 => a[3] \notin HexIds)
          [] OTHER -> FALSE
\* The WAL receivers launched for a timeline.
LaunchedFor(tenantid, timelineid) ==
    {i \in 1..Len(walreceivers) :
        walreceivers[i][1] = tenantid /\ walreceivers[i][2] = timelineid}

\* C5: pagestream, basebackup and callmemaybe for a tenant that is not in the
\* registry, or a timeline that is not in the tenant's repository, fail with
\* the not-found error of the missing one; no CopyBothResponse or
\* CopyOutResponse (nothing at all) is written and no WAL receiver is launched.
C5_UnknownTenantOrTimelineFailsBeforeCopy ==
    \A c \in Conns :
        LET q == cmd[c] IN
        (/\ q.verb \in {"pagestream", "basebackup", "callmemaybe"}
         /\ WellFormed(q)
         /\ ~TenantRegistered(q.args[1]) \/ ~TimelineExists(q.args[1], q.args[2])) =>
            /\ pc[c] = "done"
            /\ res[c] = (IF ~TenantRegistered(q.args[1]) THEN "tenant_not_found"
                         ELSE "timeline_not_found")
            /\ MsgTypes(out[c]) \cap {"CopyBothResponse", "CopyOutResponse"} = {}
            /\ out[c] = <<>>
            /\ "launch_wal_receiver" \notin OpNames(ops[c])
            /\ LaunchedFor(q.args[1], q.args[2]) = {}

\* The second query of a connection: callmemaybe for a timeline its registered
\* tenant does not hold.
C5_Witness ==
    /\ nq["c1"] = 2
    /\ cmd["c1"].verb = "callmemaybe"
    /\ Len(cmd["c1"].args) = 3
    /\ cmd["c1"].args[1] = "11" /\ cmd["c1"].args[2] = "22"
    /\ res["c1"] = "timeline_not_found"

\* C6: a well-formed pagestream, basebackup, callmemaybe, branch_create,
\* branch_list, push, request_push or do_gc that names a tenant that is not
\* registered fails with tenant-not-found, having written nothing to the client
\* and made no call but the registry lookup.
C6_UnregisteredTenantFailsBeforeIo ==
    \A c \in Conns :
        LET q == cmd[c] IN
        (q.verb \in TakesTenant /\ WellFormed(q) /\ ~TenantRegistered(q.args[1])) =>
            /\ pc[c] = "done"
            /\ res[c] = "tenant_not_found"
            /\ out[c] = <<>> /\ flushed[c] = 0
            /\ ops[c] = <<GetRepo>>
            /\ repoTimelines[q.args[1]] = {}

\* push for the unregistered tenant 22.
C6_Witness ==
    /\ cmd["c1"] = Query("push", <<"22", "11">>)
    /\ res["c1"] = "tenant_not_found"
    /\ registry["22"] = 0

(***************************************************************************)
(* push (SpecPush).                                                        *)
(***************************************************************************)
\* C7: once CopyDone was taken, the last-valid LSN of the pushed timeline is the
\* greatest LSN of the modifications of the stream.
C7_LastValidIsMaxOfStream ==
    \A c \in Conns :
        (/\ cmd[c].verb = "push"
         /\ "advance_last_valid_lsn" \in OpNames(ops[c])
         /\ puts[c] # <<>>) =>
            lastValid[<<cmd[c].args[1], cmd[c].args[2]>>] = SeqMax(puts[c])

(***************************************************************************)
(* The tenant registry (Spec, SpecRegistry).                               *)
(***************************************************************************)
\* The tenant of this tenant_create was registered before the call: what the
\* registry holds for it is not the repository the call inserted.
Recreates(c) ==
    /\ cmd[c].verb = "tenant_create"
    /\ WellFormed(cmd[c])
    /\ registry[cmd[c].args[1]] # 0
    /\ Op("insert_repository_for_tenant", registry[cmd[c].args[1]])
            \notin {ops[c][i] : i \in 1..Len(ops[c])}

\* C8: tenant_create for a tenant that is already registered fails (no
\* CommandComplete, an error result) and leaves the registry entry of the
\* tenant as it was.
C8_RecreateFailsWithConflict ==
    \A c \in Conns : Recreates(c) =>
        /\ pc[c] = "done"
        /\ res[c] \notin {"none", "ok"}
        /\ "CommandComplete" \notin MsgTypes(out[c])
        /\ cmd[c].args[1] = "11" => registry["11"] = 1

\* The DataRows a tenant_list wrote.
ListRows(c) == {i \in 1..Len(out[c]) : out[c][i].type = "DataRow"}

C10_CreatedTenantIsFound ==
    \A c \in Conns :
        LET q == cmd[c] IN
        (/\ q.verb \in {"pagestream", "basebackup", "push"}
         /\ WellFormed(q)
         /\ q.args[1] \in seen[c]) =>
            /\ res[c] # "tenant_not_found"
            /\ ops[c] # <<>> /\ ops[c][1] = GetRepo
            /\ Len(ops[c]) >= 2

\* Connection c1 created tenant 22 and got its reply; the push of c2 that
\* arrived afterwards is in its COPY loop.
C10_Witness ==
    /\ cmd["c1"] = Query("tenant_create", <<"22">>)
    /\ res["c1"] = "ok"
    /\ cmd["c2"] = Query("push", <<"22", "11">>)
    /\ "22" \in seen["c2"]
    /\ pc["c2"] = "push"

(***************************************************************************)
(* The WAL receive endpoint (SpecReceiveWal).                              *)
(***************************************************************************)
\* The session got past the greeting: the first message read was a CopyData
\* that decodes to a Greeting.
Greeted == Len(inbox) >= 1 /\ inbox[1].type = "CopyData" /\ inbox[1].tag = "Greeting"
\* The positions of wops at which op was called.
CallsOf(name) == {i \in 1..Len(wops) : wops[i].op = name}

\* C11: in a session in which continue_streaming was called, stop_streaming is
\* called exactly once when run has returned (and not before), with or without
\* a pageserver connection string.
C11_StopStreamingOnceOnExit ==
    CallsOf("continue_streaming") # {} =>
        Cardinality(CallsOf("stop_streaming")) = (IF wpc = "returned" THEN 1 ELSE 0)

\* C12: when the first inbound message is not a CopyData that decodes to a
\* Greeting, run returns an error right after it; and as long as no Greeting
\* was read, continue_streaming is not called, no Subscribe is sent, nothing is
\* handed to process_msg and no guard is held.
C12_NonGreetingFirstIsError ==
    ~Greeted =>
        /\ CallsOf("continue_streaming") = {}
        /\ CallsOf("send") = {} /\ callme = <<>> /\ subs = {}
        /\ CallsOf("process_msg") = {}
        /\ wops = <<>>
        /\ ~guard
        /\ wpc \in {"none", "start", "await_greeting", "returned"}
        /\ Len(inbox) >= 1 =>
                /\ wpc = "returned"
                /\ Len(inbox) = 1
                /\ wres \in {"expected_copydata", "decode_error", "not_greeting"}

\* The first message decodes to a VoteRequest: run returned the error.
C12_Witness ==
    /\ inbox = <<ProposerCopyData("VoteRequest", "")>>
    /\ wpc = "returned"
    /\ wres = "not_greeting"
    /\ pageserver_connstr = "ps"

\* C13: when the proposer closes the connection after the greeting, run
\* returns an ok result.
C13_CleanEofIsOk ==
    (Greeted /\ weof /\ wpc = "returned") => wres = "ok"

\* C14: on the Greeting run calls continue_streaming exactly once and first; if
\* and only if a pageserver connection string was supplied it then sends
\* exactly one Subscribe(tenant id of the Greeting, timeline id, connection
\* string); process_msg is called only after both.
C14_GreetingResumesAndSubscribes ==
    Greeted =>
        LET supplied == pageserver_connstr # NoConnstr
            preamble == IF supplied THEN 2 ELSE 1
        IN  /\ CallsOf("continue_streaming") = {1}
            /\ CallsOf("send") = (IF supplied THEN {2} ELSE {})
            /\ supplied =>
                    wops[2].ev = <<"Subscribe", inbox[1].tenant_id, SpgTimelineId,
                                   pageserver_connstr>>
            /\ \A i \in CallsOf("process_msg") : i > preamble
            /\ Len(callme) + Cardinality(subs) <= 1
            /\ \A x \in subs : x = <<inbox[1].tenant_id, SpgTimelineId, pageserver_connstr>>

\* A greeting of tenant 22 on the handler of timeline 11, with a connection
\* string: the worker holds the subscription and two messages were processed.
C14_Witness ==
    /\ Greeted
    /\ inbox[1].tenant_id = "22"
    /\ pageserver_connstr = "ps"
    /\ subs = {<<"22", "11", "ps">>}
    /\ Cardinality(CallsOf("process_msg")) = 2
    /\ wpc = "read"

\* C15: once run has returned and the callmemaybe worker has taken every
\* event sent to it, the worker holds no subscription made by the stream.
C15_SubscriptionReleasedOnExit ==
    (wpc = "returned" /\ callme = <<>>) => subs = {}

(***************************************************************************)
(* basebackup (Spec).                                                      *)
(***************************************************************************)
\* The LSNs send_tarball was asked for.
TarballLsns(c) == {ops[c][i].n : i \in {j \in 1..Len(ops[c]) : ops[c][j].op = "send_tarball"}}

\* C16: basebackup is accepted with two arguments and with three; the tarball
\* is made at the LSN given as third argument, and at the last-valid LSN of
\* the timeline when there are two.
C16_BasebackupTakesOptionalLsn ==
    \A c \in Conns :
        LET q == cmd[c] IN
        (/\ q.verb = "basebackup"
         /\ Len(q.args) \in {2, 3}
         /\ IsId(q.args[1]) /\ IsId(q.args[2])
         /\ Len(q.args) = 3 => IsLsn(q.args[3])) =>
            /\ res[c] # "syntax"
            /\ TarballLsns(c) \subseteq
                    {IF Len(q.args) = 3 THEN LsnOf(q.args[3])
                     ELSE lastValid[<<q.args[1], q.args[2]>>]}

\* C17: a basebackup writes CopyOutResponse first and only once, CopyData only
\* after it and never after CopyDone; a basebackup that succeeds wrote exactly
\* one CopyOutResponse, then its CopyData chunks, then one CopyDone, then one
\* CommandComplete, and nothing else.
C17_BasebackupMessageOrder ==
    \A c \in Conns : cmd[c].verb = "basebackup" =>
        LET o == out[c]
            n == Len(o)
        IN  /\ \A i \in 1..n : o[i].type = "CopyOutResponse" <=> i = 1
            /\ \A i \in 1..n : o[i].type = "CopyData" =>
                    \A j \in 1..i : o[j].type # "CopyDone"
            /\ ("CommandComplete" \in MsgTypes(o) \/ pc[c] = "flush" \/ res[c] = "ok") =>
                    /\ n >= 3
                    /\ o[n] = CommandComplete
                    /\ o[n - 1] = BeMessage("CopyDone")
                    /\ \A i \in 2..(n - 2) : o[i].type = "CopyData"

\* A basebackup of two chunks that succeeded.
C17_Witness ==
    /\ cmd["c1"].verb = "basebackup"
    /\ res["c1"] = "ok"
    /\ [i \in 1..Len(out["c1"]) |-> out["c1"][i].type] =
            <<"CopyOutResponse", "CopyData", "CopyData", "CopyDone", "CommandComplete">>

\* C18: a basebackup or a push that fails after its COPY response was written,
\* for another reason than the client's socket or an unexpected message from the
\* client, returns the repository's error to PostgresBackend::run: the worker
\* does not panic and CommandComplete is not written.
C18_RepositoryFailureInCopyIsAnError ==
    \A c \in Conns :
        (/\ cmd[c].verb \in {"basebackup", "push"}
         /\ MsgTypes(out[c]) \cap {"CopyOutResponse", "CopyInResponse"} # {}
         /\ res[c] \notin {"none", "ok", "io_error", "unexpected_message"}) =>
            /\ pc[c] = "done"
            /\ res[c] \in {"repo_error", "des_error"}
            /\ "CommandComplete" \notin MsgTypes(out[c])

(***************************************************************************)
(* request_push (Spec).                                                    *)
(***************************************************************************)
\* C20: once request_push has connected to its peer, the push command it
\* sends is one the peer's push branch accepts, and a request_push that
\* succeeds has read the history and finished the copy (CopyDone) before its
\* CommandComplete.
C20_RequestPushStartsPeerPush ==
    \A c \in Conns :
        (cmd[c].verb = "request_push" /\ "copy_in" \in OpNames(ops[c])) =>
            /\ res[c] # "peer_error"
            /\ "CommandComplete" \in MsgTypes(out[c]) =>
                    /\ Len(ops[c]) = 6
                    /\ ops[c][5].op = "history" /\ ops[c][6].op = "finish"

(***************************************************************************)
(* callmemaybe (SpecCallmemaybe).                                          *)
(***************************************************************************)
\* The workers that run for a timeline.
ReceiversOf(tenantid, timelineid) ==
    {r \in receivers : r[1] = tenantid /\ r[2] = timelineid}
\* The timelines callmemaybe was called for with success.
Called == {<<walreceivers[i][1], walreceivers[i][2]>> : i \in 1..Len(walreceivers)}

C21_WorkerFailureIsContained ==
    /\ listener \in {"accepting", "accept_error"}
    /\ \A c \in Conns : pc[c] = "exited" => listener = "accept_error"

(***************************************************************************)
(* Errors of a query and the connection (Spec).                            *)
(***************************************************************************)
\* The errors of a query that is not a command, lacks arguments or names
\* something that does not exist.
CommandErrors == {"syntax", "unknown_command", "tenant_not_found", "timeline_not_found"}
StatusRows == <<SINGLE_COL_ROWDESC, BeMessage("HELLO_WORLD_ROW"), CommandComplete>>

\* C22: a query that no branch takes fails with the unknown-command error; a
\* query that fails with a command-syntax or a not-found error has written
\* nothing and leaves the worker in PostgresBackend::run with the client still
\* there; run answers it with ErrorResponse and ReadyForQuery and waits for the
\* next query; and the query after it is processed as any other: a status gets
\* its rows, a pagestream for an existing timeline finds it.
C22_CommandErrorKeepsConnectionOpen ==
    \A c \in Conns :
        /\ (cmd[c] # NoQuery /\ Dispatch(cmd[c]) = "unknown") =>
                res[c] = "unknown_command"
        /\ res[c] \in CommandErrors =>
                pc[c] = "done" /\ ~eof[c] /\ out[c] = <<>>
        /\ (pc[c] = "ready" /\ prev[c] \in CommandErrors) =>
                /\ out[c] = <<ErrorResponse(prev[c]), ReadyForQuery>>
                /\ flushed[c] = 2
        /\ (prev[c] \in CommandErrors /\ cmd[c].verb = "status") =>
                /\ out[c] = StatusRows
                /\ \/ pc[c] = "flush" /\ res[c] = "none"
                   \/ pc[c] = "done" /\ res[c] = "ok"
                   \/ pc[c] = "closed" /\ res[c] = "io_error"
        /\ (prev[c] \in CommandErrors /\ cmd[c] = Query("pagestream", <<"11", "11">>)) =>
                /\ res[c] \notin CommandErrors
                /\ ops[c] = <<GetRepo, GetTimeline>>

\* A query with an unknown verb, and the status sent after it on the same
\* connection, answered.
C22_Witness ==
    /\ prev["c1"] = "unknown_command"
    /\ nq["c1"] = 2
    /\ cmd["c1"] = Query("status", <<>>)
    /\ res["c1"] = "ok"
    /\ flushed["c1"] = 3

(***************************************************************************)
(* Verb recognition (Spec).                                                *)
(***************************************************************************)
\* The verbs that are recognized with the space that follows them, and those
\* recognized as a bare prefix of the query.
ArgVerbs ==
    {"pagestream", "basebackup", "callmemaybe", "branch_create", "push", "request_push",
     "branch_list", "do_gc"}
PlainVerbs == {"controlfile", "tenant_list", "tenant_create", "status"}
\* The query begins with a recognized verb, letter case as written.
BeginsWithVerb(q) ==
    \/ q.verb \in ArgVerbs /\ q.args # <<>>
    \/ \E v \in PlainVerbs : v \in TokenPrefixes(q.verb)
\* The query begins with "set " in some letter case.
IsSetQuery(q) == q.verb \in {"set", "SET", "Set"} /\ q.args # <<>>

\* C23: when a worker takes a query: if the query begins with "set " in any
\* letter case, the worker writes one CommandComplete and nothing else, calls
\* no collaborator and leaves the shared state of the server as it is; if it
\* neither does nor begins with a recognized verb in the letter case of the
\* verb, it fails with the unknown-command error, having written nothing and
\* called nothing (so a handler runs only for a query that begins with a
\* recognized verb); and the flush that ends a set query makes its result ok,
\* unless the write to the client socket fails.
C23_VerbRecognition ==
    [][\A c \in Conns :
        /\ nq'[c] = nq[c] + 1 =>
            LET q == cmd'[c] IN
            /\ IsSetQuery(q) =>
                    /\ out'[c] = <<CommandComplete>>
                    /\ ops'[c] = <<>>
                    /\ pc'[c] = "flush" /\ res'[c] = "none"
                    /\ UNCHANGED sharedVars
            /\ (~IsSetQuery(q) /\ ~BeginsWithVerb(q)) =>
                    /\ res'[c] = "unknown_command"
                    /\ pc'[c] = "done"
                    /\ out'[c] = <<>> /\ ops'[c] = <<>>
                    /\ UNCHANGED sharedVars
            /\ (~IsSetQuery(q) /\ res'[c] # "unknown_command") => BeginsWithVerb(q)
        /\ (pc[c] = "flush" /\ IsSetQuery(cmd[c]) /\ pc'[c] # "flush") =>
            /\ \/ pc'[c] = "done" /\ res'[c] = "ok"
               \/ pc'[c] = "closed" /\ res'[c] = "io_error"
            /\ out'[c] = <<CommandComplete>>
            /\ UNCHANGED <<registry, nextRepo, repoTimelines, lastValid, walreceivers,
                           receivers>>
      ]_vars

\* PAGESTREAM 11 11 was refused as an unknown command, and the SET sent after
\* it succeeded with its CommandComplete.
C23_Witness ==
    /\ prev["c1"] = "unknown_command"
    /\ cmd["c1"].verb = "SET"
    /\ res["c1"] = "ok"
    /\ out["c1"] = <<CommandComplete>>
    /\ flushed["c1"] = 1

(***************************************************************************)
(* do_gc (Spec).                                                           *)
(***************************************************************************)
\* The calls of gc_iteration a do_gc made.
GcCalls(c) == {i \in 1..Len(ops[c]) : ops[c][i].op = "gc_iteration"}
\* The third argument is a decimal number that fits in 64 bits, and its value.
IsDecimal(tok) == tok = "64"
DecimalValue(tok) == IF tok = "64" THEN 64 ELSE 0

\* C24: a do_gc that gets through its parsing and finds its tenant and timeline
\* calls gc_iteration exactly once (no other do_gc calls it), with compact =
\* true and with the horizon given as third argument when that is a decimal
\* number, and conf.gc_horizon when there are two arguments.
C24_GcIterationOnceWithHorizon ==
    \A c \in Conns : cmd[c].verb = "do_gc" =>
        LET a == cmd[c].args IN
        /\ Cardinality(GcCalls(c)) =
                (IF /\ WellFormed(cmd[c])
                    /\ TenantRegistered(a[1])
                    /\ TimelineExists(a[1], a[2])
                 THEN 1 ELSE 0)
        /\ "RowDescription" \in MsgTypes(out[c]) => GcCalls(c) # {}
        /\ \A i \in GcCalls(c) :
                /\ ops[c][i].compact = TRUE
                /\ (Len(a) = 3 /\ IsDecimal(a[3])) => ops[c][i].n = DecimalValue(a[3])
                /\ Len(a) = 2 => ops[c][i].n = 64 * 1024 * 1024

\* do_gc 11 11 64 succeeded: one gc_iteration(64, true).
C24_Witness ==
    /\ cmd["c1"] = Query("do_gc", <<"11", "11", "64">>)
    /\ res["c1"] = "ok"
    /\ Cardinality(GcCalls("c1")) = 1
    /\ \A i \in GcCalls("c1") : ops["c1"][i].n = 64 /\ ops["c1"][i].compact

\* C25: a do_gc that succeeds has written exactly RowDescription, DataRow and
\* CommandComplete; the RowDescription names the 8 columns n_relations,
\* truncated, deleted, prep_deleted, slru_deleted, chkp_deleted, dropped,
\* elapsed in this order, and the k-th value of the DataRow is the decimal
\* number of the counter of the gc result that the k-th column names, elapsed
\* being in milliseconds.
C25_GcRowMatchesResult ==
    \A c \in Conns :
        (cmd[c].verb = "do_gc" /\ (res[c] = "ok" \/ "CommandComplete" \in MsgTypes(out[c]))) =>
            /\ Len(out[c]) = 3
            /\ out[c][1].type = "RowDescription"
            /\ out[c][1].row =
                    <<"n_relations", "truncated", "deleted", "prep_deleted", "slru_deleted",
                      "chkp_deleted", "dropped", "elapsed">>
            /\ out[c][2].type = "DataRow"
            /\ Len(out[c][2].row) = 8
            /\ \A i \in GcCalls(c) : \A k \in 1..8 :
                    LET counter == ops[c][i].result[out[c][1].row[k]]
                    IN  out[c][2].row[k] =
                            DecimalString(IF k = 8 THEN counter \div 1000 ELSE counter)
            /\ GcCalls(c) # {}
            /\ out[c][3] = CommandComplete

\* A do_gc whose gc_iteration counted 11 relations, ..., 17 dropped in 8.5 ms.
C25_Witness ==
    /\ cmd["c1"].verb = "do_gc"
    /\ res["c1"] = "ok"
    /\ Len(out["c1"]) = 3
    /\ out["c1"][2].row = <<"11", "12", "13", "14", "15", "16", "17", "8">>

(***************************************************************************)
(* The responses of the pagestream session, by kind (SpecPagestream).      *)
(***************************************************************************)
\* The bytes of the payload of a CopyData response.
PayloadBytes(m) == Len(m.head) + m.page.len
\* The number four bytes give, most significant byte first.
U32Of(b) == ((b[1] * 256 + b[2]) * 256 + b[3]) * 256 + b[4]
\* The requests of a kind that were answered, by their position.
Answered(c, kind) == {k \in 1..Len(Responses(c)) : reqs[c][k].kind = kind}
\* The worker is where a request that was just answered leaves it: it writes
\* the response, or reads on, or the client or its socket ended the session.
SessionGoesOn(c) ==
    /\ res[c] \in {"none", "ok", "io_error"}
    /\ pc[c] \in {"ps_write", "pagestream", "flush", "done", "closed"}

\* C26: the response to a Read request, whether get_page_at_lsn succeeded or
\* failed, is tag 102, ok, four bytes of n_blocks and a page of 8192 bytes:
\* a payload of 8198 bytes.
C26_ReadResponseIs8198Bytes ==
    \A c \in Conns : InPagestream(c) =>
        /\ \A k \in Answered(c, 2) :
                /\ Responses(c)[k].head[1] = 102
                /\ Len(Responses(c)[k].head) = 6
                /\ Responses(c)[k].page.len = 8192
                /\ PayloadBytes(Responses(c)[k]) = 8198
        /\ pending[c].tag = "Read" => pending[c].page.len = 8192

\* Two Reads answered, one that failed and one that succeeded.
C26_Witness ==
    /\ Len(Responses("c1")) = 2
    /\ reqs["c1"][1].kind = 2 /\ reqs["c1"][1].ans.err
    /\ reqs["c1"][2].kind = 2 /\ ~reqs["c1"][2].ans.err
    /\ Responses("c1")[2].page = [len |-> 8192, fill |-> 7]
    /\ PayloadBytes(Responses("c1")[1]) = 8198

\* C27: the response to an Exists request is the six bytes 100, ok, 0, 0, 0, 0
\* and no page, with ok = 1 exactly when get_rel_exists answered that the
\* relation exists; a relation that is absent and a lookup that fails both
\* give 100 0 0 0 0 0; and the request does not end the session.
C27_ExistsAnswersStatus ==
    \A c \in Conns : InPagestream(c) =>
        /\ \A k \in Answered(c, 0) :
                LET found == ~reqs[c][k].ans.err /\ reqs[c][k].ans.exists IN
                /\ Responses(c)[k].head = <<100, IF found THEN 1 ELSE 0, 0, 0, 0, 0>>
                /\ Responses(c)[k].page.len = 0
        /\ \A k \in 1..Len(reqs[c]) :
                (reqs[c][k].kind = 0 /\ reqs[c][k].at = nread[c]) => SessionGoesOn(c)

\* Three Exists requests answered: a failed lookup, an absent relation and one
\* that exists.
C27_Witness ==
    /\ pc["c1"] = "pagestream"
    /\ Len(Responses("c1")) = 3
    /\ \A k \in 1..3 : reqs["c1"][k].kind = 0
    /\ reqs["c1"][1].ans.err
    /\ ~reqs["c1"][2].ans.err /\ ~reqs["c1"][2].ans.exists
    /\ reqs["c1"][3].ans.exists
    /\ [k \in 1..3 |-> Responses("c1")[k].head[2]] = <<0, 0, 1>>

\* C28: the response to an Nblocks request is tag 101, ok = 1 always, and
\* n_blocks, most significant byte first: the size get_rel_size answered, and
\* 0 when it failed; and the request does not end the session.
C28_NblocksAnswersSize ==
    \A c \in Conns : InPagestream(c) =>
        /\ \A k \in Answered(c, 1) :
                LET h == Responses(c)[k].head IN
                /\ Len(h) = 6
                /\ h[1] = 101
                /\ h[2] = 1
                /\ U32Of(SubSeq(h, 3, 6)) =
                        (IF reqs[c][k].ans.err THEN 0 ELSE reqs[c][k].ans.size)
                /\ Responses(c)[k].page.len = 0
        /\ \A k \in 1..Len(reqs[c]) :
                (reqs[c][k].kind = 1 /\ reqs[c][k].at = nread[c]) => SessionGoesOn(c)

\* Two Nblocks requests answered: a relation of 258 blocks, and a failed lookup.
C28_Witness ==
    /\ pc["c1"] = "pagestream"
    /\ Len(Responses("c1")) = 2
    /\ reqs["c1"][1].kind = 1 /\ reqs["c1"][1].ans.size = 258
    /\ reqs["c1"][2].kind = 1 /\ reqs["c1"][2].ans.err
    /\ Responses("c1")[1].head = <<101, 1, 0, 0, 1, 2>>
    /\ Responses("c1")[2].head = <<101, 1, 0, 0, 0, 0>>

\* C29: in the pagestream loop a message that is not CopyData is skipped: no
\* response is built or written and the loop reads on; when the client is gone
\* the handler returns success, and from then on nothing more is written for
\* this query.
C29_SkipsOthersAndEndsOnEof ==
    [][\A c \in Conns :
        /\ (pc[c] = "pagestream" /\ nread'[c] = nread[c] + 1
                /\ inmsg'[c].type # "CopyData") =>
                /\ pc'[c] = "pagestream" /\ res'[c] = res[c] /\ ~eof'[c]
                /\ out'[c] = out[c] /\ flushed'[c] = flushed[c]
                /\ reqs'[c] = reqs[c] /\ pending'[c] = pending[c]
        /\ (pc[c] = "pagestream" /\ eof'[c]) =>
                /\ pc'[c] = "flush" /\ res'[c] = "none"
                /\ out'[c] = out[c] /\ nread'[c] = nread[c]
        /\ (InPagestream(c) /\ eof[c]) =>
                /\ out'[c] = out[c]
                /\ pc'[c] = "done" => res'[c] = "ok"]_vars

\* A request answered, then a message that is not CopyData, then the client
\* gone: the query ended with success and only the one response was written.
C29_Witness ==
    /\ eof["c1"] /\ pc["c1"] = "done" /\ res["c1"] = "ok"
    /\ nread["c1"] = 2 /\ inmsg["c1"].type \notin {"CopyData", "none"}
    /\ Len(reqs["c1"]) = 1
    /\ Len(out["c1"]) = 2 /\ out["c1"][2].type = "CopyData"

\* The number of messages handed to process_msg.
Processed == Cardinality(CallsOf("process_msg"))

\* C30: after the greeting the messages read are handed to process_msg one at
\* a time in the order they arrived (the greeting first); a reply is written
\* only for the message processed last, at most once, and before the next
\* message is read; a message that is not CopyData or does not decode is not
\* processed; and run returns exactly when reading, decoding, processing or
\* writing failed, with that error.
C30_StreamingLoopInOrder ==
    [][Greeted' =>
        /\ Cardinality(CallsOf("process_msg")') # Processed =>
                /\ Cardinality(CallsOf("process_msg")') = Processed + 1
                /\ Len(inbox) = Processed + 1
                /\ \E i \in CallsOf("process_msg")' :
                        /\ \A j \in CallsOf("process_msg") : j < i
                        /\ wops'[i] = WOp("process_msg", <<inbox[Processed + 1].tag>>)
                /\ inbox' = inbox /\ wout' = wout
        /\ (inbox' # inbox /\ Greeted) =>
                /\ Processed = Len(inbox)
                /\ SubSeq(inbox', 1, Len(inbox)) = inbox /\ Len(inbox') = Len(inbox) + 1
                /\ wout' = wout
                /\ wpc = "read"
                /\ LET m == inbox'[Len(inbox')] IN
                    (m.type # "CopyData" \/ m.tag = "garbage") =>
                        /\ wpc' = "returned"
                        /\ wres' = (IF m.type # "CopyData" THEN "expected_copydata"
                                    ELSE "decode_error")
                        /\ wops' = DropGuard(wops)
        /\ (wout' # wout /\ Greeted) =>
                /\ wpc = "reply" /\ wpc' = "read"
                /\ Len(wout') = Len(wout) + 1 /\ SubSeq(wout', 1, Len(wout)) = wout
                /\ Processed = Len(inbox)
                /\ inbox' = inbox /\ wops' = wops
        /\ (wpc' = "returned") =
                (wres' \in {"io_error", "closed_unexpectedly", "expected_copydata",
                            "decode_error", "process_error"})
        /\ wpc' # "returned" => wres' = "none"]_vars

\* Three messages read: the greeting was answered, the second was processed
\* with no reply, the third did not decode and ended the session.
C30_Witness ==
    /\ Greeted /\ Len(inbox) = 3
    /\ inbox[2].tag = "AppendRequest" /\ inbox[3].tag = "garbage"
    /\ Processed = 2
    /\ Len(wout) = 2
    /\ wpc = "returned" /\ wres = "decode_error"

(***************************************************************************)
(* The push session, message by message (SpecPush).                        *)
(***************************************************************************)
\* The LSNs handed to put_raw_data, in the order of the calls.
PutCalls(c) == SelectSeq(ops[c], LAMBDA o : o.op = "put_raw_data")
\* The messages of a sequence.
Range(s) == {s[i] : i \in 1..Len(s)}

\* C31: in a push the empty timeline is created before CopyInResponse is
\* written; a Sync changes nothing; a CopyData that deserializes is handed to
\* put_raw_data, after those that arrived before it; a message that is none of
\* CopyData, CopyDone and Sync ends the push with an error, with no
\* CommandComplete and no advance_last_valid_lsn.
C31_PushLoopByMessage ==
    [][\A c \in Conns :
        /\ (cmd'[c].verb = "push" /\ out'[c] # <<>>) =>
                /\ out'[c][1] = BeMessage("CopyInResponse")
                /\ "create_empty_timeline" \in OpNames(ops'[c])
                /\ cmd'[c].args[2] \in repoTimelines'[cmd'[c].args[1]]
        /\ (pc[c] = "push" /\ nread'[c] = nread[c] + 1) =>
                LET msg == inmsg'[c]
                    same == /\ out'[c] = out[c] /\ flushed'[c] = flushed[c]
                            /\ lastValid' = lastValid /\ repoTimelines' = repoTimelines
                IN  /\ msg.type = "Sync" =>
                            /\ same /\ pc'[c] = "push" /\ res'[c] = "none"
                            /\ ops'[c] = ops[c] /\ puts'[c] = puts[c]
                            /\ last_lsn'[c] = last_lsn[c]
                    /\ (msg.type = "CopyData" /\ msg.len > 0) =>
                            /\ same
                            /\ ops'[c] = Append(ops[c], Op("put_raw_data", msg.lsn))
                            /\ puts'[c] \in {puts[c], Append(puts[c], msg.lsn)}
                            /\ (pc'[c] = "push") = (puts'[c] # puts[c])
                    /\ msg.type \notin {"CopyData", "CopyDone", "Sync"} =>
                            /\ same /\ pc'[c] = "done"
                            /\ res'[c] \notin {"none", "ok"}
                            /\ ops'[c] = ops[c]
                            /\ "advance_last_valid_lsn" \notin OpNames(ops'[c])
                            /\ CommandComplete \notin Range(out'[c])]_vars

\* A Sync, a modification at LSN 2 and then a Flush: the modification was
\* applied and the push ended with the error.
C31_Witness ==
    /\ cmd["c1"].verb = "push" /\ nread["c1"] = 3
    /\ inmsg["c1"].type = "Flush"
    /\ puts["c1"] = <<2>>
    /\ pc["c1"] = "done" /\ res["c1"] = "unexpected_message"
    /\ out["c1"] = <<BeMessage("CopyInResponse")>>

\* C38: when the client of a push is gone before CopyDone,
\* advance_last_valid_lsn is not called and the last-valid LSN of the timeline
\* stays where create_empty_timeline put it; the modifications that arrived
\* were applied; CommandComplete is written after CopyInResponse and the
\* handler returns success, unless the final flush to the socket fails.
C38_PushEofKeepsLastValid ==
    \A c \in Conns : (cmd[c].verb = "push" /\ eof[c]) =>
        /\ "advance_last_valid_lsn" \notin OpNames(ops[c])
        /\ lastValid[<<cmd[c].args[1], cmd[c].args[2]>>] = 0
        /\ [i \in 1..Len(PutCalls(c)) |-> PutCalls(c)[i].n] = puts[c]
        /\ out[c] = <<BeMessage("CopyInResponse"), CommandComplete>>
        /\ \/ pc[c] = "flush" /\ res[c] = "none"
           \/ pc[c] = "done" /\ res[c] = "ok" /\ flushed[c] = 2
           \/ pc[c] = "closed" /\ res[c] = "io_error"

\* Modifications at LSN 2 and 1 arrived, then the client was gone: both were
\* applied and the query succeeded with the last-valid LSN still 0.
C38_Witness ==
    /\ cmd["c1"].verb = "push" /\ eof["c1"]
    /\ puts["c1"] = <<2, 1>>
    /\ pc["c1"] = "done" /\ res["c1"] = "ok"
    /\ lastValid[<<cmd["c1"].args[1], cmd["c1"].args[2]>>] = 0

(***************************************************************************)
(* CopyDataSink (SpecSink).                                                *)
(***************************************************************************)
\* The chunk the sink is to split larger writes into: 64 KiB.
ChunkLimit == 64 * 1024
\* The messages emitted for the wr-th write, in order.
EmittedFor(wr) == SelectSeq(emitted, LAMBDA m : m.wr = wr)
\* The payloads of segs, one after the other, are the bytes from..(to - 1).
RECURSIVE Concatenates(_, _, _)
Concatenates(segs, from, to) ==
    IF segs = <<>> THEN from = to
    ELSE Head(segs).off = from /\ Concatenates(Tail(segs), from + Head(segs).len, to)

\* C32: every CopyData message the sink emits has a payload of at most the
\* chunk limit, whatever the size of the write, and the payloads emitted for a
\* write that succeeded are, one after the other, the bytes written.
C32_SinkSplitsLargeWrites ==
    /\ \A k \in 1..Len(emitted) : emitted[k].len <= ChunkLimit
    /\ \A i \in 1..Len(sunk) :
            sunk[i].ret >= 0 =>
                /\ sunk[i].ret = sunk[i].len
                /\ Concatenates(EmittedFor(i), 0, sunk[i].len)

(***************************************************************************)
(* Startup (SpecStart).                                                    *)
(***************************************************************************)
\* C33: when the bind of the listen address fails, start_pageserver returns
\* the error and no background thread (metrics, WAL redo, page service) was
\* spawned.
C33_BindBeforeAnyThread ==
    (spc = "returned" /\ sres = "bind_error") =>
        /\ listener = "unbound"
        /\ threads \cap BackgroundThreads = {}

C40_HandleIsInitialized ==
    \A k \in Tasks :
        /\ handle[k] # NoThread =>
                /\ handle[k] = tstate[k]
                /\ cell[handle[k]] = "system"
                /\ permit[handle[k]] = "none"
        /\ tpc[k] \in {"returned", "used"} => handle[k] # NoThread
        /\ tpc[k] # "panicked"

\* After a failed attempt the task launched the system of the state of e1,
\* ended the launch on e2, and used the Handle.
C40_Witness ==
    /\ tpc["k1"] = "used"
    /\ handle["k1"] = "e1" /\ tthread["k1"] = "e2"
    /\ tres["k1"] = "ok"
    /\ launch_attempts["e1"] = 2

(***************************************************************************)
(* Two tenant_create for one tenant (SpecRegistry).                        *)
(***************************************************************************)
\* The connection finished a well-formed tenant_create for tenantid.
CreatedTenant(c, tenantid) ==
    /\ cmd[c].verb = "tenant_create"
    /\ WellFormed(cmd[c])
    /\ cmd[c].args[1] = tenantid
    /\ pc[c] = "done"
\* The repository the tenant_create of the connection handed to the registry.
InsertedBy(c) == {o.n : o \in {p \in Range(ops[c]) : p.op = "insert_repository_for_tenant"}}

\* C35: when both connections have finished a tenant_create for the same
\* tenant, one that was not registered when the page server started, at most
\* one of them succeeded, the other failed, and the registry holds for the
\* tenant the repository the successful one created.
C35_ConcurrentCreateOneWins ==
    \A t \in HexIds \ {"11"} :
        (CreatedTenant("c1", t) /\ CreatedTenant("c2", t)) =>
            LET winners == {c \in Conns : res[c] = "ok"} IN
            /\ Cardinality(winners) <= 1
            /\ \A c \in Conns \ winners : res[c] \notin {"none", "ok"}
            /\ \A c \in winners : registry[t] \in InsertedBy(c)

(***************************************************************************)
(* The guard of a WAL receive session (SpecReceiveWal).                    *)
(***************************************************************************)
\* C36: in a session that was given a pageserver connection string and whose
\* Greeting was accepted, stop_streaming is not called while run is running
\* and is called exactly once when run has returned, as its last call, after
\* every process_msg; this is so whether or not the Subscribe event could be
\* sent, and right after the Greeting run goes on to process_msg either way.
C36_GuardStopsStreamingOnce ==
    (Greeted /\ pageserver_connstr # NoConnstr) =>
        /\ guard = (wpc # "returned")
        /\ wpc # "returned" => CallsOf("stop_streaming") = {}
        /\ wpc = "returned" =>
                /\ CallsOf("stop_streaming") = {Len(wops)}
                /\ \A i \in CallsOf("process_msg") : i < Len(wops)
        /\ CallsOf("send") = {2}
        /\ (Len(inbox) = 1 /\ CallsOf("process_msg") = {}) =>
                wpc = "process" /\ wres = "none"

\* The Subscribe event could not be sent (the worker never got it); the
\* Greeting and a second message were processed, then the proposer closed the
\* connection and stop_streaming was called.
C36_Witness ==
    /\ Greeted /\ pageserver_connstr = "ps"
    /\ callme = <<>> /\ subs = {}
    /\ Cardinality(CallsOf("process_msg")) = 2
    /\ wpc = "returned" /\ weof
    /\ wops[Len(wops)].op = "stop_streaming"

\* The calls of process_msg, in order.
ProcessCalls == SelectSeq(wops, LAMBDA o : o.op = "process_msg")

\* C37: once the Greeting was accepted, the first message handed to
\* process_msg is the Greeting; while its reply waits to be written the second
\* message has not been read, and when the second message has been read the
\* Greeting was processed and no reply to it is left to write.
C37_GreetingIsProcessedFirst ==
    Greeted =>
        /\ ProcessCalls # <<>> => ProcessCalls[1] = WOp("process_msg", <<"Greeting">>)
        /\ (wpc = "reply" /\ Len(ProcessCalls) = 1) => Len(inbox) = 1
        /\ (wpc = "read" /\ Len(inbox) = 1) => Len(ProcessCalls) = 1
        /\ Len(inbox) >= 2 =>
                /\ Len(ProcessCalls) >= 1
                /\ Len(ProcessCalls) = 1 => wpc \in {"process", "returned"}
                /\ Len(wout) >= 2 => Len(ProcessCalls) >= 1

\* The Greeting was processed and answered, and the second message, an
\* AppendRequest, was read after that.
C37_Witness ==
    /\ Greeted /\ Len(inbox) = 2
    /\ inbox[2].tag = "AppendRequest"
    /\ Len(wout) = 2
    /\ wpc = "process"
    /\ ProcessCalls = <<WOp("process_msg", <<"Greeting">>)>>

(***************************************************************************)
(* The end of every successful query (Spec).                               *)
(***************************************************************************)
\* The positions of out at which CommandComplete was written.
Completions(c) == {i \in 1..Len(out[c]) : out[c][i] = CommandComplete}

\* C39: when process_query has returned success, everything it wrote is
\* flushed; for a pagestream query no CommandComplete was written, and for
\* every other verb exactly one was, as the last message.
C39_SuccessEndsWithCommandComplete ==
    \A c \in Conns : res[c] = "ok" =>
        /\ pc[c] = "done"
        /\ flushed[c] = Len(out[c])
        /\ IF Dispatch(cmd[c]) = "pagestream"
           THEN Completions(c) = {}
           ELSE Completions(c) = {Len(out[c])} /\ out[c] # <<>>

\* A do_gc that succeeded: RowDescription, DataRow and CommandComplete, all
\* flushed.
C39_Witness ==
    /\ res["c1"] = "ok" /\ Dispatch(cmd["c1"]) = "do_gc"
    /\ Len(out["c1"]) = 3 /\ flushed["c1"] = 3
    /\ out["c1"][3] = CommandComplete

\* A pagestream that succeeded: CopyBothResponse and a response, and no
\* CommandComplete.
C39_PagestreamWitness ==
    /\ res["c1"] = "ok" /\ Dispatch(cmd["c1"]) = "pagestream"
    /\ Len(out["c1"]) = 2 /\ flushed["c1"] = 2

====
